---------------------------- MODULE Spec2Model ----------------------------
(***************************************************************************)
(* Doomsday protocol: the pari-mutuel prediction market                    *)
(* (programs/prediction-market, instructions/ and state/) and the          *)
(* constant-product AMM (programs/amm).                                    *)
(*                                                                         *)
(* Every instruction is an operator from the accounts it is given to the   *)
(* accounts it leaves, together with its error code.  An invocation that   *)
(* fails leaves every account as it was (the ledger rolls the transaction  *)
(* back), so only invocations that return Ok are steps of the system.      *)
(*                                                                         *)
(* Machine words are modelled at a reduced width: a u64 has 30 bits, an    *)
(* i64 is its two's-complement reading, a u128 has 60 bits and an f64      *)
(* carries 25 significant bits, so that u64 * u64 always fits a u128,      *)
(* u64 * u64 * 9970 does not, and a u128 need not fit an f64, as in the    *)
(* program.  The program's own constants (10000, 30, 1000, 128, 512) keep  *)
(* their values.  A u64 is an integer; a u128 is written in limbs of 15    *)
(* bits, least significant first, without leading zero limbs.              *)
(***************************************************************************)
EXTENDS Integers, Sequences, FiniteSets, TLC

(***************************************************************************)
(* Natural numbers in limbs                                                *)
(***************************************************************************)
LIMB_BITS == 15
LIMB == 2^LIMB_BITS

Min(a, b) == IF a <= b THEN a ELSE b

\* the limbs of an integer
RECURSIVE BN(_)
BN(n) == IF n = 0 THEN <<>> ELSE <<n % LIMB>> \o BN(n \div LIMB)

\* the integer of at most two limbs
BVal(x) ==
    IF Len(x) = 0 THEN 0 ELSE IF Len(x) = 1 THEN x[1] ELSE x[1] + LIMB * x[2]

RECURSIVE BNorm(_)
BNorm(x) ==
    IF x = <<>> THEN <<>>
    ELSE IF x[Len(x)] = 0 THEN BNorm(SubSeq(x, 1, Len(x) - 1)) ELSE x

RECURSIVE BAddC(_, _, _)
BAddC(x, y, c) ==
    IF x = <<>> /\ y = <<>> THEN (IF c = 0 THEN <<>> ELSE <<c>>)
    ELSE LET a == IF x = <<>> THEN 0 ELSE Head(x)
             b == IF y = <<>> THEN 0 ELSE Head(y)
             s == a + b + c
         IN  <<s % LIMB>> \o BAddC(IF x = <<>> THEN x ELSE Tail(x),
                                   IF y = <<>> THEN y ELSE Tail(y), s \div LIMB)
BAdd(x, y) == BAddC(x, y, 0)

RECURSIVE BSubB(_, _, _)
BSubB(x, y, w) ==
    IF x = <<>> THEN <<>>
    ELSE LET b == IF y = <<>> THEN 0 ELSE Head(y)
             d == Head(x) - b - w
         IN  <<IF d < 0 THEN d + LIMB ELSE d>>
             \o BSubB(Tail(x), IF y = <<>> THEN y ELSE Tail(y), IF d < 0 THEN 1 ELSE 0)
\* x - y, for y <= x
BSub(x, y) == BNorm(BSubB(x, y, 0))

RECURSIVE BCmpAt(_, _, _)
BCmpAt(x, y, i) ==
    IF i = 0 THEN 0
    ELSE IF x[i] < y[i] THEN -1 ELSE IF x[i] > y[i] THEN 1 ELSE BCmpAt(x, y, i - 1)
BCmp(x, y) ==
    IF Len(x) < Len(y) THEN -1 ELSE IF Len(x) > Len(y) THEN 1 ELSE BCmpAt(x, y, Len(x))
BLeq(x, y) == BCmp(x, y) <= 0
BLt(x, y) == BCmp(x, y) < 0
BMin(x, y) == IF BLeq(x, y) THEN x ELSE y

RECURSIVE BMulLimbC(_, _, _)
BMulLimbC(x, c, carry) ==
    IF x = <<>> THEN (IF carry = 0 THEN <<>> ELSE <<carry>>)
    ELSE LET p == Head(x) * c + carry
         IN  <<p % LIMB>> \o BMulLimbC(Tail(x), c, p \div LIMB)
BMulLimb(x, c) == IF c = 0 THEN <<>> ELSE BMulLimbC(x, c, 0)

RECURSIVE BMul(_, _)
BMul(x, y) ==
    IF x = <<>> \/ y = <<>> THEN <<>>
    ELSE LET rest == BMul(x, Tail(y))
         IN  BAdd(BMulLimb(x, Head(y)), IF rest = <<>> THEN <<>> ELSE <<0>> \o rest)

RECURSIVE BitLen(_)
BitLen(n) == IF n = 0 THEN 0 ELSE 1 + BitLen(n \div 2)

\* short division of x by one limb c
RECURSIVE BDivLimbStep(_, _, _, _, _)
BDivLimbStep(x, i, c, q, r) ==
    IF i = 0 THEN [q |-> BNorm(q), r |-> IF r = 0 THEN <<>> ELSE <<r>>]
    ELSE LET t == r * LIMB + x[i]
         IN  BDivLimbStep(x, i - 1, c, <<t \div c>> \o q, t % c)
BDivLimb(x, c) == BDivLimbStep(x, Len(x), c, <<>>, 0)

\* the largest digit d <= q with y * d <= r
RECURSIVE BDigit(_, _, _)
BDigit(r, y, q) ==
    IF q = 0 \/ BLeq(BMulLimb(y, q), r) THEN q ELSE BDigit(r, y, q - 1)

\* long division, from the most significant limb of x down; the top limb of
\* y is at least LIMB / 2, so the estimated digit is at most 2 too large
\* an estimate of the digit r \div y that is at most 2 too large
BDigitEstimate(r, y, n) ==
    IF Len(r) < n THEN 0
    ELSE IF Len(r) = n THEN r[n] \div y[n]
    ELSE Min(LIMB - 1, (r[n + 1] * LIMB + r[n]) \div y[n])

\* long division, from the most significant limb of x down; the top limb of
\* y is at least LIMB / 2
RECURSIVE BDivStep(_, _, _, _, _)
BDivDigit(x, i, y, q, r, d) ==
    BDivStep(x, i - 1, y, <<d>> \o q, IF d = 0 THEN r ELSE BSub(r, BMulLimb(y, d)))
BDivLimbIn(x, i, y, q, r) ==
    BDivDigit(x, i, y, q, r, BDigit(r, y, BDigitEstimate(r, y, Len(y))))
BDivStep(x, i, y, q, r) ==
    IF i = 0 THEN [q |-> BNorm(q), r |-> r]
    ELSE BDivLimbIn(x, i, y, q, BNorm(<<x[i]>> \o r))

BDivLong(x, y) == BDivStep(x, Len(x), y, <<>>, <<>>).q

\* the factor that brings the top limb of y to at least LIMB / 2
BScale(y) == 2^(LIMB_BITS - BitLen(y[Len(y)]))

\* the quotient of x by y, for y # 0
BDiv(x, y) ==
    IF Len(y) = 1 THEN BDivLimb(x, y[1]).q
    ELSE IF BLt(x, y) THEN <<>>
    ELSE BDivLong(BMulLimb(x, BScale(y)), BMulLimb(y, BScale(y)))

\* quotient and remainder of x by y, for y # 0
BDivModOf(x, y, q) == [q |-> q, r |-> BSub(x, BMul(q, y))]
BDivMod(x, y) == BDivModOf(x, y, BDiv(x, y))

(***************************************************************************)
(* Machine words                                                           *)
(***************************************************************************)
U64_MAX == 2^30 - 1
I64_MAX == 2^29 - 1
I64_MIN == -(2^29)
U64_LIMBS == 2
U128_LIMBS == U64_LIMBS + U64_LIMBS

\* Option<T>: None, or Some(v)
None == [some |-> FALSE, val |-> 0]
Some(v) == [some |-> TRUE, val |-> v]

\* `o?` inside a function that returns an Option: F of the value, or None
and_then(o, F(_)) == IF o.some THEN F(o.val) ELSE None

\* `let v = ...;`
With(v, F(_)) == F(v)

\* `x as u128` of a u64
as_u128(x) == BN(x)

\* `x as u64` of a u128: the low 64 bits
as_u64(x) == BVal(BNorm(SubSeq(x, 1, Min(Len(x), U64_LIMBS))))

\* u128::checked_mul, checked_add, checked_sub, checked_div
fits_u128(x) == IF Len(x) <= U128_LIMBS THEN Some(x) ELSE None
checked_mul_u128(a, b) == fits_u128(BMul(a, b))
checked_add_u128(a, b) == fits_u128(BAdd(a, b))
checked_sub_u128(a, b) == IF BLeq(b, a) THEN Some(BSub(a, b)) ELSE None
\* a division that rounds up
checked_div_ceil_u128(a, b) ==
    IF b = <<>> THEN None ELSE Some(BDiv(BAdd(a, BSub(b, <<1>>)), b))
checked_div_u128(a, b) == IF b = <<>> THEN None ELSE Some(BDiv(a, b))

\* u64::checked_mul
\* a * b and a + b on u128 written with the plain operators: the exact result
\* when it fits; otherwise a panic (None) in a build with overflow-checks and
\* the low 128 bits in a build without
wrap_u128(x) == BNorm(SubSeq(x, 1, Min(Len(x), U128_LIMBS)))
unchecked_u128(x, overflow_checks) ==
    IF Len(x) <= U128_LIMBS THEN Some(x)
    ELSE IF overflow_checks THEN None
    ELSE Some(wrap_u128(x))
unchecked_mul_u128(a, b, overflow_checks) == unchecked_u128(BMul(a, b), overflow_checks)
unchecked_add_u128(a, b, overflow_checks) == unchecked_u128(BAdd(a, b), overflow_checks)
\* a / b written with the plain operator: a panic when b = 0
unchecked_div_u128(a, b) == IF b = <<>> THEN None ELSE Some(BDiv(a, b))

checked_mul_u64(a, b) ==
    IF a = 0 \/ b = 0 THEN Some(0)
    ELSE IF b <= U64_MAX \div a THEN Some(a * b) ELSE None

\* u64::checked_add, u64::checked_sub
checked_add_u64(a, b) == IF a <= U64_MAX - b THEN Some(a + b) ELSE None
checked_sub_u64(a, b) == IF b <= a THEN Some(a - b) ELSE None

\* u64::saturating_add, u64::saturating_sub
saturating_add_u64(a, b) == IF a <= U64_MAX - b THEN a + b ELSE U64_MAX
saturating_sub_u64(a, b) == IF b <= a THEN a - b ELSE 0

\* `x as i64` of a u64: the two's-complement reading
as_i64(x) == IF x > I64_MAX THEN x - U64_MAX - 1 ELSE x

\* i64::saturating_add, i64::saturating_sub
saturating_add_i64(a, b) ==
    IF a + b > I64_MAX THEN I64_MAX ELSE IF a + b < I64_MIN THEN I64_MIN ELSE a + b
saturating_sub_i64(a, b) ==
    IF a - b > I64_MAX THEN I64_MAX ELSE IF a - b < I64_MIN THEN I64_MIN ELSE a - b

(***************************************************************************)
(* state/event.rs: the payout calculator                                   *)
(***************************************************************************)
\* a payout that hands a winner the stake back and nothing of the losing pool
calculate_payout_stake_only(ev_outcome, doom_pool, life_pool, bet_amount, bet_outcome, fee_basis_points) ==
    LET winning_pool == IF bet_outcome = "Doom" THEN doom_pool ELSE life_pool
    IN
    IF ev_outcome # bet_outcome THEN None
    ELSE IF winning_pool = 0 THEN None
    ELSE Some(<<bet_amount, 0>>)

\* PredictionEvent::calculate_payout(&self, bet_amount, bet_outcome, fee_basis_points):
\* ev_outcome is self.outcome ("None", "Doom" or "Life"); the result is
\* Some(<<user_payout, platform_fee>>) or None.
calculate_payout(ev_outcome, doom_pool, life_pool, bet_amount, bet_outcome, fee_basis_points) ==
    LET winning_pool == IF bet_outcome = "Doom" THEN doom_pool ELSE life_pool
        losing_pool == IF bet_outcome = "Doom" THEN life_pool ELSE doom_pool
    IN
    IF ev_outcome # bet_outcome THEN None
    ELSE IF winning_pool = 0 THEN None
    ELSE
    and_then(checked_mul_u128(as_u128(bet_amount), as_u128(losing_pool)), LAMBDA prod :
    and_then(checked_div_u128(prod, as_u128(winning_pool)), LAMBDA share :
    and_then(checked_mul_u128(share, as_u128(fee_basis_points)), LAMBDA fprod :
    and_then(checked_div_u128(fprod, as_u128(10000)), LAMBDA fee :
    and_then(checked_sub_u128(share, fee), LAMBDA net_winnings :
    and_then(checked_add_u128(as_u128(bet_amount), net_winnings), LAMBDA total_payout :
    Some(<<as_u64(total_payout), as_u64(fee)>>)))))))

(***************************************************************************)
(* Inputs of the prediction market                                         *)
(***************************************************************************)
MaxTime == 3

Keys == {1, 2, 3}
EventIds == {1}
Times == 0..MaxTime
Outcomes == {"Doom", "Life"}
\* Half the u64 range: two such amounts no longer fit a u64.
HugeAmount == (U64_MAX + 1) \div 2
BetAmounts == {0, 1, HugeAmount}
\* fee_basis_points arguments: none, the maximum, one above it.
FeeChoices == {0, 10000, 10001}
\* title and description lengths: empty, valid, too long.
TitleLens == {0, 1, 129}
DescriptionLens == {0, 1, 513}
\* deadline and resolution_deadline arguments.
DeadlineChoices == {0, 1}
ResolutionChoices == {1, 2}
\* The signer of initialize (whoever deploys the platform), the creators of
\* events and the keys update_platform may name as the new oracle.
Deployers == {1}
Creators == {2}
NewOracles == {2}

VARIABLES
    now,              \* Clock::get()?.unix_timestamp
    platform_config,  \* the PlatformConfig account
    events,           \* event id -> the PredictionEvent account
    user_bets,        \* event id -> user -> the UserBet account
    doom_vault,       \* event id -> balance of the event's DOOM vault
    life_vault,       \* event id -> balance of the event's LIFE vault
    user_stats,       \* user -> the UserStats account
    claim_log         \* event id -> user -> what claim_winnings computed and logged

pmVars == <<now, platform_config, events, user_bets, doom_vault, life_vault,
            user_stats, claim_log>>

(***************************************************************************)
(* Accounts (state/*.rs)                                                   *)
(***************************************************************************)
\* Pubkey::default()
VARIABLES
    pool,        \* the LiquidityPool account
    pool_doom,   \* balance of the pool's DOOM token account
    pool_life,   \* balance of the pool's LIFE token account
    lp_minted,   \* supply of the LP mint
    amm_steps    \* instructions executed on the pool so far

ammVars == <<pool, pool_doom, pool_life, lp_minted, amm_steps>>

\* A call of PredictionEvent::calculate_payout on its own: the arguments (with
\* the fields of self it reads) and what it returned.
VARIABLES payout_call, payout_ret

payoutVars == <<payout_call, payout_ret>>

\* A call of amm::get_quote on its own: the arguments, with the build's
\* overflow-checks setting, and what it logged.
VARIABLES quote_call, quote_ret

quoteVars == <<quote_call, quote_ret>>

\* Two instructions of the prediction market applied in both orders to the
\* same accounts: the accounts and the instructions, and what each order left.
VARIABLES commute_call, commute_ret

commuteVars == <<commute_call, commute_ret>>

\* A UserStats account on its own and the calls of record_win ("W") and
\* record_loss ("L") made on it so far, oldest first, each with the
\* current_streak it left.
VARIABLES streak_stats, streak_calls

streakVars == <<streak_stats, streak_calls>>

\* the calls made on their own
callVars == <<payoutVars, quoteVars, commuteVars, streakVars>>

DefaultKey == 0

\* state/platform_config.rs: before initialize the account does not exist.
NoPlatformConfig ==
    [initialized |-> FALSE, authority |-> DefaultKey, oracle |-> DefaultKey,
     fee_basis_points |-> 0, paused |-> FALSE, total_doom_fees |-> 0,
     total_life_fees |-> 0, total_events |-> 0, total_bets |-> 0]

\* state/event.rs: an event account that was not created yet.
NoEvent ==
    [exists |-> FALSE, creator |-> DefaultKey, title_len |-> 0, description_len |-> 0,
     deadline |-> 0, resolution_deadline |-> 0, status |-> "Active", outcome |-> "None",
     doom_pool |-> 0, life_pool |-> 0, total_bettors |-> 0, created_at |-> 0,
     resolved_at |-> None]

\* state/bet.rs: a bet account that was not created yet.
NoBet ==
    [exists |-> FALSE, outcome |-> "Doom", amount |-> 0, placed_at |-> 0,
     claimed |-> FALSE, refunded |-> FALSE]

\* state/user_stats.rs: #[derive(Default)], as init_if_needed leaves it.
NoStats ==
    [user |-> DefaultKey, total_bets |-> 0, wins |-> 0, losses |-> 0, total_wagered |-> 0,
     total_won |-> 0, total_lost |-> 0, net_profit |-> 0, events_created |-> 0,
     first_bet_at |-> None, last_bet_at |-> None, current_streak |-> 0,
     best_streak |-> 0, worst_streak |-> 0]

NoClaim == [claimed |-> FALSE, payout |-> 0, fee |-> 0, fee_basis_points |-> 0]

\* is_betting_open without the status test
before_deadline(ev, current_time) == current_time < ev.deadline

\* PredictionEvent::is_betting_open
is_betting_open(ev, current_time) == ev.status = "Active" /\ current_time < ev.deadline

\* a winner check that lets every bet through
is_winner_any(bet, event_outcome) == TRUE

\* UserBet::is_winner
is_winner(bet, event_outcome) == event_outcome = bet.outcome

\* UserStats::record_bet
record_bet(st, amount, timestamp) ==
    [st EXCEPT !.total_bets = saturating_add_u64(@, 1),
               !.total_wagered = saturating_add_u64(@, amount),
               !.first_bet_at = IF @.some THEN @ ELSE Some(timestamp),
               !.last_bet_at = Some(timestamp)]

\* record_win that extends the streak whatever its sign
record_win_no_restart(st, amount_wagered, amount_won) ==
    LET profit == saturating_sub_i64(as_i64(amount_won), as_i64(amount_wagered))
        streak == saturating_add_i64(st.current_streak, 1)
    IN  [st EXCEPT !.wins = saturating_add_u64(@, 1),
                   !.total_won = saturating_add_u64(@, amount_won),
                   !.net_profit = saturating_add_i64(@, profit),
                   !.current_streak = streak,
                   !.best_streak = IF streak > @ THEN streak ELSE @]

\* UserStats::record_win
record_win(st, amount_wagered, amount_won) ==
    LET profit == saturating_sub_i64(as_i64(amount_won), as_i64(amount_wagered))
        streak == IF st.current_streak >= 0
                  THEN saturating_add_i64(st.current_streak, 1) ELSE 1
    IN  [st EXCEPT !.wins = saturating_add_u64(@, 1),
                   !.total_won = saturating_add_u64(@, amount_won),
                   !.net_profit = saturating_add_i64(@, profit),
                   !.current_streak = streak,
                   !.best_streak = IF streak > @ THEN streak ELSE @]

\* UserStats::record_loss
record_loss(st, amount_wagered) ==
    LET streak == IF st.current_streak <= 0
                  THEN saturating_sub_i64(st.current_streak, 1) ELSE -1
    IN  [st EXCEPT !.losses = saturating_add_u64(@, 1),
                   !.total_lost = saturating_add_u64(@, amount_wagered),
                   !.net_profit = saturating_sub_i64(@, as_i64(amount_wagered)),
                   !.current_streak = streak,
                   !.worst_streak = IF -streak > @ THEN -streak ELSE @]

(***************************************************************************)
(* Instruction results.  An instruction returns the accounts as it leaves  *)
(* them and "Ok", or the accounts untouched and its error.                 *)
(***************************************************************************)
World ==
    [err |-> "Ok", platform_config |-> platform_config, events |-> events,
     user_bets |-> user_bets, doom_vault |-> doom_vault, life_vault |-> life_vault,
     user_stats |-> user_stats, claim_log |-> claim_log]

Err(code) == [World EXCEPT !.err = code]

Commit(r) ==
    /\ r.err = "Ok"
    /\ platform_config' = r.platform_config
    /\ events' = r.events
    /\ user_bets' = r.user_bets
    /\ doom_vault' = r.doom_vault
    /\ life_vault' = r.life_vault
    /\ user_stats' = r.user_stats
    /\ claim_log' = r.claim_log
    /\ UNCHANGED <<now, ammVars, callVars>>


(***************************************************************************)
(* instructions/initialize.rs                                              *)
(***************************************************************************)
initialize(authority, fee_basis_points) ==
    IF platform_config.initialized THEN Err("AccountAlreadyInUse")
    ELSE IF ~(fee_basis_points <= 10000) THEN Err("InvalidFeeBasisPoints")
    ELSE [World EXCEPT !.platform_config =
            [initialized |-> TRUE, authority |-> authority, oracle |-> authority,
             fee_basis_points |-> fee_basis_points, paused |-> FALSE,
             total_doom_fees |-> 0, total_life_fees |-> 0,
             total_events |-> 0, total_bets |-> 0]]

(***************************************************************************)
(* instructions/update_platform.rs: an absent argument is None.            *)
(***************************************************************************)
\* update_platform without the test of the fee
update_platform_any_fee(authority, fee_basis_points, new_oracle, paused) ==
    IF ~platform_config.initialized THEN Err("AccountNotInitialized")
    ELSE IF platform_config.authority # authority THEN Err("Unauthorized")
    ELSE [World EXCEPT !.platform_config =
            [@ EXCEPT !.fee_basis_points =
                          IF fee_basis_points.some THEN fee_basis_points.val ELSE @,
                      !.oracle = IF new_oracle.some THEN new_oracle.val ELSE @,
                      !.paused = IF paused.some THEN paused.val ELSE @]]

\* update_platform that writes the oracle also when none is supplied
update_platform_overwrite(authority, fee_basis_points, new_oracle, paused) ==
    IF ~platform_config.initialized THEN Err("AccountNotInitialized")
    ELSE IF platform_config.authority # authority THEN Err("Unauthorized")
    ELSE IF fee_basis_points.some /\ ~(fee_basis_points.val <= 10000)
         THEN Err("InvalidFeeBasisPoints")
    ELSE [World EXCEPT !.platform_config =
            [@ EXCEPT !.fee_basis_points =
                          IF fee_basis_points.some THEN fee_basis_points.val ELSE @,
                      !.oracle = new_oracle.val,
                      !.paused = IF paused.some THEN paused.val ELSE @]]

update_platform_in(w, current_time, authority, fee_basis_points, new_oracle, paused) ==
    IF ~w.platform_config.initialized THEN [w EXCEPT !.err = "AccountNotInitialized"]
    ELSE IF w.platform_config.authority # authority THEN [w EXCEPT !.err = "Unauthorized"]
    ELSE IF fee_basis_points.some /\ ~(fee_basis_points.val <= 10000)
         THEN [w EXCEPT !.err = "InvalidFeeBasisPoints"]
    ELSE [w EXCEPT !.platform_config =
            [@ EXCEPT !.fee_basis_points =
                          IF fee_basis_points.some THEN fee_basis_points.val ELSE @,
                      !.oracle = IF new_oracle.some THEN new_oracle.val ELSE @,
                      !.paused = IF paused.some THEN paused.val ELSE @]]

\* update_platform on the accounts as they are, at the time of the clock
update_platform(authority, fee_basis_points, new_oracle, paused) == update_platform_in(World, now, authority, fee_basis_points, new_oracle, paused)

(***************************************************************************)
(* instructions/create_event.rs                                            *)
(***************************************************************************)
\* create_event that accepts a resolution deadline equal to the deadline
create_event_empty_window(creator, event_id, title_len, description_len, deadline, resolution_deadline) ==
    IF ~platform_config.initialized THEN Err("AccountNotInitialized")
    ELSE IF platform_config.paused THEN Err("PlatformPaused")
    ELSE IF events[event_id].exists THEN Err("AccountAlreadyInUse")
    ELSE IF ~(title_len # 0 /\ title_len <= 128) THEN Err("InvalidTitle")
    ELSE IF ~(description_len # 0 /\ description_len <= 512) THEN Err("InvalidDescription")
    ELSE IF ~(deadline > now) THEN Err("InvalidDeadline")
    ELSE IF ~(resolution_deadline >= deadline) THEN Err("InvalidResolutionDeadline")
    ELSE [World EXCEPT
            !.events[event_id] =
                [exists |-> TRUE, creator |-> creator, title_len |-> title_len,
                 description_len |-> description_len, deadline |-> deadline,
                 resolution_deadline |-> resolution_deadline, status |-> "Active",
                 outcome |-> "None", doom_pool |-> 0, life_pool |-> 0,
                 total_bettors |-> 0, created_at |-> now, resolved_at |-> None],
            !.user_stats[creator] =
                [@ EXCEPT !.user = creator,
                          !.events_created = saturating_add_u64(@, 1)]]

create_event_in(w, current_time, creator, event_id, title_len, description_len, deadline, resolution_deadline) ==
    IF ~w.platform_config.initialized THEN [w EXCEPT !.err = "AccountNotInitialized"]
    ELSE IF w.platform_config.paused THEN [w EXCEPT !.err = "PlatformPaused"]
    ELSE IF w.events[event_id].exists THEN [w EXCEPT !.err = "AccountAlreadyInUse"]
    ELSE IF ~(title_len # 0 /\ title_len <= 128) THEN [w EXCEPT !.err = "InvalidTitle"]
    ELSE IF ~(description_len # 0 /\ description_len <= 512) THEN [w EXCEPT !.err = "InvalidDescription"]
    ELSE IF ~(deadline > current_time) THEN [w EXCEPT !.err = "InvalidDeadline"]
    ELSE IF ~(resolution_deadline > deadline) THEN [w EXCEPT !.err = "InvalidResolutionDeadline"]
    ELSE [w EXCEPT
            !.events[event_id] =
                [exists |-> TRUE, creator |-> creator, title_len |-> title_len,
                 description_len |-> description_len, deadline |-> deadline,
                 resolution_deadline |-> resolution_deadline, status |-> "Active",
                 outcome |-> "None", doom_pool |-> 0, life_pool |-> 0,
                 total_bettors |-> 0, created_at |-> current_time, resolved_at |-> None],
            !.user_stats[creator] =
                [@ EXCEPT !.user = creator,
                          !.events_created = saturating_add_u64(@, 1)]]

\* create_event on the accounts as they are, at the time of the clock
create_event(creator, event_id, title_len, description_len, deadline, resolution_deadline) == create_event_in(World, now, creator, event_id, title_len, description_len, deadline, resolution_deadline)

(***************************************************************************)
(* instructions/place_bet.rs.  funded: the user's token account holds the  *)
(* amount (the ledger refuses the transfer otherwise).                     *)
(***************************************************************************)
\* place_bet whose user_bet account may already exist
place_bet_init_if_needed(user, e, outcome, amount, funded) ==
    IF ~platform_config.initialized THEN Err("AccountNotInitialized")
    ELSE IF platform_config.paused THEN Err("PlatformPaused")
    ELSE IF ~events[e].exists THEN Err("AccountNotInitialized")
    ELSE IF ~(amount > 0) THEN Err("InvalidBetAmount")
    ELSE IF ~is_betting_open(events[e], now) THEN Err("EventEnded")
    ELSE
    LET vault == IF outcome = "Doom" THEN doom_vault[e] ELSE life_vault[e]
        side_pool == IF outcome = "Doom" THEN events[e].doom_pool ELSE events[e].life_pool
        credited == checked_add_u64(vault, amount)
        new_pool == checked_add_u64(side_pool, amount)
    IN  IF ~funded THEN Err("InsufficientFunds")
        ELSE IF ~credited.some THEN Err("TokenOverflow")
        ELSE IF ~new_pool.some THEN Err("Overflow")
        ELSE [World EXCEPT
                !.doom_vault[e] = IF outcome = "Doom" THEN credited.val ELSE @,
                !.life_vault[e] = IF outcome = "Life" THEN credited.val ELSE @,
                !.events[e] =
                    [@ EXCEPT !.doom_pool = IF outcome = "Doom" THEN new_pool.val ELSE @,
                              !.life_pool = IF outcome = "Life" THEN new_pool.val ELSE @,
                              !.total_bettors = saturating_add_u64(@, 1)],
                !.user_bets[e][user] =
                    [exists |-> TRUE, outcome |-> outcome, amount |-> amount,
                     placed_at |-> now, claimed |-> FALSE, refunded |-> FALSE],
                !.user_stats[user] = record_bet([@ EXCEPT !.user = user], amount, now),
                !.platform_config.total_bets = saturating_add_u64(@, 1)]

\* place_bet with a checked total_bets: one bet too many fails
place_bet_checked_total(w, current_time, user, e, outcome, amount, funded) ==
    IF ~w.platform_config.initialized THEN [w EXCEPT !.err = "AccountNotInitialized"]
    ELSE IF w.platform_config.paused THEN [w EXCEPT !.err = "PlatformPaused"]
    ELSE IF ~w.events[e].exists THEN [w EXCEPT !.err = "AccountNotInitialized"]
    ELSE IF w.user_bets[e][user].exists THEN [w EXCEPT !.err = "AccountAlreadyInUse"]
    ELSE IF ~(amount > 0) THEN [w EXCEPT !.err = "InvalidBetAmount"]
    ELSE IF ~is_betting_open(w.events[e], current_time) THEN [w EXCEPT !.err = "EventEnded"]
    ELSE
    LET vault == IF outcome = "Doom" THEN w.doom_vault[e] ELSE w.life_vault[e]
        side_pool == IF outcome = "Doom" THEN w.events[e].doom_pool ELSE w.events[e].life_pool
        credited == checked_add_u64(vault, amount)
        new_pool == checked_add_u64(side_pool, amount)
        total == checked_add_u64(w.platform_config.total_bets, 1)
    IN  IF ~funded THEN [w EXCEPT !.err = "InsufficientFunds"]
        ELSE IF ~credited.some THEN [w EXCEPT !.err = "TokenOverflow"]
        ELSE IF ~new_pool.some THEN [w EXCEPT !.err = "Overflow"]
        ELSE IF ~total.some THEN [w EXCEPT !.err = "Overflow"]
        ELSE [w EXCEPT
                !.doom_vault[e] = IF outcome = "Doom" THEN credited.val ELSE @,
                !.life_vault[e] = IF outcome = "Life" THEN credited.val ELSE @,
                !.events[e] =
                    [@ EXCEPT !.doom_pool = IF outcome = "Doom" THEN new_pool.val ELSE @,
                              !.life_pool = IF outcome = "Life" THEN new_pool.val ELSE @,
                              !.total_bettors = saturating_add_u64(@, 1)],
                !.user_bets[e][user] =
                    [exists |-> TRUE, outcome |-> outcome, amount |-> amount,
                     placed_at |-> current_time, claimed |-> FALSE, refunded |-> FALSE],
                !.user_stats[user] = record_bet([@ EXCEPT !.user = user], amount, current_time),
                !.platform_config.total_bets = total.val]

place_bet_in(w, current_time, user, e, outcome, amount, funded) ==
    IF ~w.platform_config.initialized THEN [w EXCEPT !.err = "AccountNotInitialized"]
    ELSE IF w.platform_config.paused THEN [w EXCEPT !.err = "PlatformPaused"]
    ELSE IF ~w.events[e].exists THEN [w EXCEPT !.err = "AccountNotInitialized"]
    ELSE IF w.user_bets[e][user].exists THEN [w EXCEPT !.err = "AccountAlreadyInUse"]
    ELSE IF ~(amount > 0) THEN [w EXCEPT !.err = "InvalidBetAmount"]
    ELSE IF ~is_betting_open(w.events[e], current_time) THEN [w EXCEPT !.err = "EventEnded"]
    ELSE
    LET vault == IF outcome = "Doom" THEN w.doom_vault[e] ELSE w.life_vault[e]
        side_pool == IF outcome = "Doom" THEN w.events[e].doom_pool ELSE w.events[e].life_pool
        credited == checked_add_u64(vault, amount)
        new_pool == checked_add_u64(side_pool, amount)
    IN  IF ~funded THEN [w EXCEPT !.err = "InsufficientFunds"]
        ELSE IF ~credited.some THEN [w EXCEPT !.err = "TokenOverflow"]
        ELSE IF ~new_pool.some THEN [w EXCEPT !.err = "Overflow"]
        ELSE [w EXCEPT
                !.doom_vault[e] = IF outcome = "Doom" THEN credited.val ELSE @,
                !.life_vault[e] = IF outcome = "Life" THEN credited.val ELSE @,
                !.events[e] =
                    [@ EXCEPT !.doom_pool = IF outcome = "Doom" THEN new_pool.val ELSE @,
                              !.life_pool = IF outcome = "Life" THEN new_pool.val ELSE @,
                              !.total_bettors = saturating_add_u64(@, 1)],
                !.user_bets[e][user] =
                    [exists |-> TRUE, outcome |-> outcome, amount |-> amount,
                     placed_at |-> current_time, claimed |-> FALSE, refunded |-> FALSE],
                !.user_stats[user] = record_bet([@ EXCEPT !.user = user], amount, current_time),
                !.platform_config.total_bets = saturating_add_u64(@, 1)]

\* place_bet on the accounts as they are, at the time of the clock
place_bet(user, e, outcome, amount, funded) == place_bet_in(World, now, user, e, outcome, amount, funded)

(***************************************************************************)
(* instructions/resolve_event.rs                                           *)
(***************************************************************************)
\* resolve_event without the constraint on the signer
resolve_event_any_signer(oracle, e, outcome) ==
    IF ~platform_config.initialized THEN Err("AccountNotInitialized")
    ELSE IF ~events[e].exists THEN Err("AccountNotInitialized")
    ELSE IF ~(events[e].status = "Active") THEN Err("EventAlreadyResolved")
    ELSE IF ~(now >= events[e].deadline) THEN Err("EventNotResolved")
    ELSE IF ~(now <= events[e].resolution_deadline) THEN Err("ResolutionDeadlinePassed")
    ELSE [World EXCEPT
            !.events[e] = [@ EXCEPT !.status = "Resolved",
                                    !.outcome = outcome,
                                    !.resolved_at = Some(now)],
            !.platform_config.total_events = saturating_add_u64(@, 1)]

\* resolve_event without the test of the resolution deadline
resolve_event_any_time_after(oracle, e, outcome) ==
    IF ~platform_config.initialized THEN Err("AccountNotInitialized")
    ELSE IF platform_config.oracle # oracle THEN Err("UnauthorizedOracle")
    ELSE IF ~events[e].exists THEN Err("AccountNotInitialized")
    ELSE IF ~(events[e].status = "Active") THEN Err("EventAlreadyResolved")
    ELSE IF ~(now >= events[e].deadline) THEN Err("EventNotResolved")
    ELSE [World EXCEPT
            !.events[e] = [@ EXCEPT !.status = "Resolved",
                                    !.outcome = outcome,
                                    !.resolved_at = Some(now)],
            !.platform_config.total_events = saturating_add_u64(@, 1)]

\* resolve_event that leaves the outcome unset
resolve_event_no_outcome(oracle, e, outcome) ==
    IF ~platform_config.initialized THEN Err("AccountNotInitialized")
    ELSE IF platform_config.oracle # oracle THEN Err("UnauthorizedOracle")
    ELSE IF ~events[e].exists THEN Err("AccountNotInitialized")
    ELSE IF ~(events[e].status = "Active") THEN Err("EventAlreadyResolved")
    ELSE IF ~(now >= events[e].deadline) THEN Err("EventNotResolved")
    ELSE IF ~(now <= events[e].resolution_deadline) THEN Err("ResolutionDeadlinePassed")
    ELSE [World EXCEPT
            !.events[e] = [@ EXCEPT !.status = "Resolved",
                                    !.resolved_at = Some(now)],
            !.platform_config.total_events = saturating_add_u64(@, 1)]

resolve_event_in(w, current_time, oracle, e, outcome) ==
    IF ~w.platform_config.initialized THEN [w EXCEPT !.err = "AccountNotInitialized"]
    ELSE IF w.platform_config.oracle # oracle THEN [w EXCEPT !.err = "UnauthorizedOracle"]
    ELSE IF ~w.events[e].exists THEN [w EXCEPT !.err = "AccountNotInitialized"]
    ELSE IF ~(w.events[e].status = "Active") THEN [w EXCEPT !.err = "EventAlreadyResolved"]
    ELSE IF ~(current_time >= w.events[e].deadline) THEN [w EXCEPT !.err = "EventNotResolved"]
    ELSE IF ~(current_time <= w.events[e].resolution_deadline) THEN [w EXCEPT !.err = "ResolutionDeadlinePassed"]
    ELSE [w EXCEPT
            !.events[e] = [@ EXCEPT !.status = "Resolved",
                                    !.outcome = outcome,
                                    !.resolved_at = Some(current_time)],
            !.platform_config.total_events = saturating_add_u64(@, 1)]

\* resolve_event on the accounts as they are, at the time of the clock
resolve_event(oracle, e, outcome) == resolve_event_in(World, now, oracle, e, outcome)

\* token::transfer out of a vault: the ledger refuses an amount the vault lacks.
vault_debit(balance, amount) == checked_sub_u64(balance, amount)

(***************************************************************************)
(* lib.rs, prediction_market::resolve_event with its ResolveEvent accounts *)
(***************************************************************************)
prediction_market_resolve_event(oracle, e, outcome) ==
    IF ~platform_config.initialized THEN Err("AccountNotInitialized")
    ELSE IF platform_config.oracle # oracle THEN Err("UnauthorizedOracle")
    ELSE IF ~events[e].exists THEN Err("AccountNotInitialized")
    ELSE IF ~(events[e].status = "Active") THEN Err("EventAlreadyResolved")
    ELSE IF ~(now >= events[e].deadline) THEN Err("EventNotResolved")
    ELSE [World EXCEPT
            !.events[e] = [@ EXCEPT !.status = "Resolved",
                                    !.outcome = outcome,
                                    !.resolved_at = Some(now)]]

\* lib.rs, prediction_market::claim_winnings with its ClaimWinnings accounts.
\* The transfer is signed with the seeds of the vault of the winning side, so
\* that vault is the one debited; the fee stays in it.
prediction_market_claim_winnings(user, e) ==
    LET ev == events[e]
        bet == user_bets[e][user]
        doom_won == ev.outcome = "Doom"
        winning_pool == IF doom_won THEN ev.doom_pool ELSE ev.life_pool
        losing_pool == IF doom_won THEN ev.life_pool ELSE ev.doom_pool
        vault == IF doom_won THEN doom_vault[e] ELSE life_vault[e]
    IN
    IF ~platform_config.initialized THEN Err("AccountNotInitialized")
    ELSE IF platform_config.paused THEN Err("PlatformPaused")
    ELSE IF ~ev.exists THEN Err("AccountNotInitialized")
    ELSE IF ~(ev.status = "Resolved") THEN Err("EventNotResolved")
    ELSE IF ~bet.exists THEN Err("AccountNotInitialized")
    ELSE IF bet.claimed THEN Err("AlreadyClaimed")
    ELSE IF ev.outcome = "None" THEN Err("EventNotResolved")
    ELSE IF ~(bet.outcome = ev.outcome) THEN Err("DidNotWin")
    ELSE IF ~(winning_pool > 0) THEN Err("InvalidWinningPool")
    ELSE
    With(checked_add_u64(winning_pool, losing_pool), LAMBDA total_pool :
    IF ~total_pool.some THEN Err("Overflow")
    ELSE
    With(and_then(checked_mul_u128(as_u128(bet.amount), as_u128(total_pool.val)),
                  LAMBDA prod : checked_div_u128(prod, as_u128(winning_pool))),
         LAMBDA quot :
    IF ~quot.some THEN Err("Overflow")
    ELSE
    With(as_u64(quot.val), LAMBDA user_share :
    With(checked_mul_u64(user_share, platform_config.fee_basis_points), LAMBDA fee_mul :
    IF ~fee_mul.some THEN Err("Overflow")
    ELSE
    LET fee == fee_mul.val \div 10000
        payout == checked_sub_u64(user_share, fee)
    IN
    IF ~payout.some THEN Err("Overflow")
    ELSE
    With(vault_debit(vault, payout.val), LAMBDA paid :
    IF ~paid.some THEN Err("InsufficientFunds")
    ELSE [World EXCEPT
            !.doom_vault[e] = IF doom_won THEN paid.val ELSE @,
            !.life_vault[e] = IF doom_won THEN @ ELSE paid.val,
            !.user_bets[e][user].claimed = TRUE])))))

(***************************************************************************)
(* instructions/cancel_event.rs                                            *)
(***************************************************************************)
\* cancel_event without the constraint on the status
cancel_event_any_status(authority, e) ==
    IF ~platform_config.initialized THEN Err("AccountNotInitialized")
    ELSE IF platform_config.authority # authority THEN Err("Unauthorized")
    ELSE IF ~events[e].exists THEN Err("AccountNotInitialized")
    ELSE [World EXCEPT !.events[e].status = "Cancelled"]

cancel_event_in(w, current_time, authority, e) ==
    IF ~w.platform_config.initialized THEN [w EXCEPT !.err = "AccountNotInitialized"]
    ELSE IF w.platform_config.authority # authority THEN [w EXCEPT !.err = "Unauthorized"]
    ELSE IF ~w.events[e].exists THEN [w EXCEPT !.err = "AccountNotInitialized"]
    ELSE IF ~(w.events[e].status = "Active") THEN [w EXCEPT !.err = "EventAlreadyResolved"]
    ELSE [w EXCEPT !.events[e].status = "Cancelled"]

\* cancel_event on the accounts as they are, at the time of the clock
cancel_event(authority, e) == cancel_event_in(World, now, authority, e)


(***************************************************************************)
(* instructions/claim_winnings.rs                                          *)
(***************************************************************************)
\* the claim constraint without the test
always_claimable(bet) == TRUE

\* ClaimWinnings: constraint = !user_bet.claimed
not_claimed(bet) == ~bet.claimed

claim_winnings_in(w, current_time, user, e) ==
    LET ev == w.events[e]
        bet == w.user_bets[e][user]
    IN
    IF ~w.platform_config.initialized THEN [w EXCEPT !.err = "AccountNotInitialized"]
    ELSE IF ~ev.exists THEN [w EXCEPT !.err = "AccountNotInitialized"]
    ELSE IF ~(ev.status = "Resolved") THEN [w EXCEPT !.err = "EventNotResolved"]
    ELSE IF ~bet.exists THEN [w EXCEPT !.err = "AccountNotInitialized"]
    ELSE IF ~not_claimed(bet) THEN [w EXCEPT !.err = "AlreadyClaimed"]
    ELSE IF ~is_winner(bet, ev.outcome) THEN [w EXCEPT !.err = "NotAWinner"]
    ELSE
    With(calculate_payout(ev.outcome, ev.doom_pool, ev.life_pool, bet.amount,
                          bet.outcome, w.platform_config.fee_basis_points), LAMBDA p :
    IF ~p.some THEN [w EXCEPT !.err = "NoWinnings"]
    ELSE
    LET payout == p.val[1]
        fee == p.val[2]
        doom_won == bet.outcome = "Doom"
        win_vault == IF doom_won THEN w.doom_vault[e] ELSE w.life_vault[e]
        lose_vault == IF doom_won THEN w.life_vault[e] ELSE w.doom_vault[e]
        \* the original bet, out of the vault of the winning side
        stake_out == vault_debit(win_vault, bet.amount)
        winnings == saturating_sub_u64(payout, bet.amount)
        \* the share of the losing pool, out of the other vault
        winnings_out == IF winnings > 0 THEN vault_debit(lose_vault, winnings)
                        ELSE Some(lose_vault)
        \* the platform fee, out of the other vault too
        fee_out == IF ~winnings_out.some THEN None
                   ELSE IF fee > 0 THEN vault_debit(winnings_out.val, fee)
                   ELSE winnings_out
    IN
    IF ~stake_out.some \/ ~winnings_out.some \/ ~fee_out.some THEN [w EXCEPT !.err = "InsufficientFunds"]
    ELSE [w EXCEPT
            !.doom_vault[e] = IF doom_won THEN stake_out.val ELSE fee_out.val,
            !.life_vault[e] = IF doom_won THEN fee_out.val ELSE stake_out.val,
            !.platform_config =
                [@ EXCEPT !.total_life_fees =
                              IF doom_won /\ fee > 0
                              THEN saturating_add_u64(@, fee) ELSE @,
                          !.total_doom_fees =
                              IF ~doom_won /\ fee > 0
                              THEN saturating_add_u64(@, fee) ELSE @],
            !.user_bets[e][user].claimed = TRUE,
            !.user_stats[user] = record_win(@, bet.amount, payout),
            !.claim_log[e][user] =
                [claimed |-> TRUE, payout |-> payout, fee |-> fee,
                 fee_basis_points |-> w.platform_config.fee_basis_points]])

\* claim_winnings on the accounts as they are, at the time of the clock
claim_winnings(user, e) == claim_winnings_in(World, now, user, e)

(***************************************************************************)
(* instructions/claim_refund.rs                                            *)
(***************************************************************************)
\* claim_refund without the constraint on the status of the event
claim_refund_any_status(user, e) ==
    LET ev == events[e]
        bet == user_bets[e][user]
    IN
    IF ~ev.exists THEN Err("AccountNotInitialized")
    ELSE IF ~bet.exists THEN Err("AccountNotInitialized")
    ELSE IF bet.refunded THEN Err("RefundAlreadyClaimed")
    ELSE
    LET vault == IF bet.outcome = "Doom" THEN doom_vault[e] ELSE life_vault[e]
        refund_out == vault_debit(vault, bet.amount)
    IN
    IF ~refund_out.some THEN Err("InsufficientFunds")
    ELSE [World EXCEPT
            !.doom_vault[e] = IF bet.outcome = "Doom" THEN refund_out.val ELSE @,
            !.life_vault[e] = IF bet.outcome = "Life" THEN refund_out.val ELSE @,
            !.user_bets[e][user].refunded = TRUE]

claim_refund_in(w, current_time, user, e) ==
    LET ev == w.events[e]
        bet == w.user_bets[e][user]
    IN
    IF ~ev.exists THEN [w EXCEPT !.err = "AccountNotInitialized"]
    ELSE IF ~(ev.status = "Cancelled") THEN [w EXCEPT !.err = "EventNotCancelled"]
    ELSE IF ~bet.exists THEN [w EXCEPT !.err = "AccountNotInitialized"]
    ELSE IF bet.refunded THEN [w EXCEPT !.err = "RefundAlreadyClaimed"]
    ELSE
    LET vault == IF bet.outcome = "Doom" THEN w.doom_vault[e] ELSE w.life_vault[e]
        refund_out == vault_debit(vault, bet.amount)
    IN
    IF ~refund_out.some THEN [w EXCEPT !.err = "InsufficientFunds"]
    ELSE [w EXCEPT
            !.doom_vault[e] = IF bet.outcome = "Doom" THEN refund_out.val ELSE @,
            !.life_vault[e] = IF bet.outcome = "Life" THEN refund_out.val ELSE @,
            !.user_bets[e][user].refunded = TRUE]

\* claim_refund on the accounts as they are, at the time of the clock
claim_refund(user, e) == claim_refund_in(World, now, user, e)

(***************************************************************************)
(* The prediction market as a state machine                                *)
(***************************************************************************)
OptionOf(S) == {None} \cup {Some(v) : v \in S}

InitPM ==
    /\ now = 0
    /\ platform_config = NoPlatformConfig
    /\ events = [e \in EventIds |-> NoEvent]
    /\ user_bets = [e \in EventIds |-> [u \in Keys |-> NoBet]]
    /\ doom_vault = [e \in EventIds |-> 0]
    /\ life_vault = [e \in EventIds |-> 0]
    /\ user_stats = [u \in Keys |-> NoStats]
    /\ claim_log = [e \in EventIds |-> [u \in Keys |-> NoClaim]]

\* The clock of the ledger: monotonic.
Tick ==
    /\ now < MaxTime
    /\ now' = now + 1
    /\ UNCHANGED <<platform_config, events, user_bets, doom_vault, life_vault,
                   user_stats, claim_log, ammVars, callVars>>

Initialize ==
    \E a \in Deployers, f \in FeeChoices : Commit(initialize(a, f))

UpdatePlatform ==
    \E a \in Keys, f \in OptionOf(FeeChoices), o \in OptionOf(NewOracles),
       p \in OptionOf(BOOLEAN) :
        Commit(update_platform(a, f, o, p))

CreateEvent ==
    \E c \in Creators, e \in EventIds, tl \in TitleLens, dl \in DescriptionLens,
       d \in DeadlineChoices, r \in ResolutionChoices :
        Commit(create_event(c, e, tl, dl, d, r))

PlaceBet ==
    \E u \in Keys, e \in EventIds, o \in Outcomes, a \in BetAmounts, funded \in BOOLEAN :
        Commit(place_bet(u, e, o, a, funded))

ResolveEvent ==
    \E k \in Keys, e \in EventIds, o \in Outcomes : Commit(resolve_event(k, e, o))

CancelEvent ==
    \E k \in Keys, e \in EventIds : Commit(cancel_event(k, e))

ClaimWinnings ==
    \E u \in Keys, e \in EventIds : Commit(claim_winnings(u, e))

ClaimRefund ==
    \E u \in Keys, e \in EventIds : Commit(claim_refund(u, e))

NextPM ==
    \/ Tick
    \/ Initialize
    \/ UpdatePlatform
    \/ CreateEvent
    \/ PlaceBet
    \/ ResolveEvent
    \/ CancelEvent
    \/ ClaimWinnings
    \/ ClaimRefund

(***************************************************************************)
(* programs/amm: f64 conversions of add_liquidity's first deposit          *)
(***************************************************************************)
\* significant bits of an f64
F64_MANT_BITS == 25

BBitLen(x) == IF x = <<>> THEN 0 ELSE LIMB_BITS * (Len(x) - 1) + BitLen(x[Len(x)])
BPow2(k) == [i \in 1..(k \div LIMB_BITS) |-> 0] \o <<2^(k % LIMB_BITS)>>
BOdd(x) == x # <<>> /\ x[1] % 2 = 1

\* x rounded to a multiple of 2^e, ties to even: dm is x divided by 2^e
round_ties_even(dm, e) ==
    LET c == BCmp(dm.r, BPow2(e - 1))
    IN  BMul(IF c > 0 \/ (c = 0 /\ BOdd(dm.q)) THEN BAdd(dm.q, <<1>>) ELSE dm.q, BPow2(e))

\* `x as f64` of a u128: the nearest f64, ties to even
as_f64(x) ==
    IF BBitLen(x) <= F64_MANT_BITS THEN x
    ELSE round_ties_even(BDivMod(x, BPow2(BBitLen(x) - F64_MANT_BITS)),
                         BBitLen(x) - F64_MANT_BITS)

\* the largest s in lo .. hi - 1 with s * s <= v
RECURSIVE ISqrt(_, _, _)
ISqrtHalf(v, lo, hi, mid) ==
    IF BLeq(BMul(BN(mid), BN(mid)), v) THEN ISqrt(v, mid, hi) ELSE ISqrt(v, lo, mid)
ISqrt(v, lo, hi) ==
    IF hi - lo <= 1 THEN lo ELSE ISqrtHalf(v, lo, hi, lo + (hi - lo) \div 2)

\* the f64 nearest to the square root of v, truncated: s is the integer
\* square root of v and k its length in bits
f64_sqrt_round(v, s, k) ==
    IF s = 0 THEN 0
    ELSE IF k <= F64_MANT_BITS
    THEN IF BVal(BSub(BMul(BN(s + 1), BN(s + 1)), v)) <= s \div 2^(F64_MANT_BITS - k)
         THEN s + 1 ELSE s
    ELSE LET ulp == 2^(k - F64_MANT_BITS)
             below == s - (s % ulp)
             mid == below + ulp \div 2
             c == BCmp(v, BMul(BN(mid), BN(mid)))
         IN  IF c > 0 \/ (c = 0 /\ (below \div ulp) % 2 = 1)
             THEN below + ulp ELSE below

\* `v.sqrt() as u64` of an f64 v >= 0 with an integer value: the square root
\* rounded to the nearest f64, then truncated, saturating at u64::MAX
f64_sqrt_as_u64(v) ==
    With(ISqrt(v, 0, U64_MAX + 2), LAMBDA s : Min(f64_sqrt_round(v, s, BitLen(s)), U64_MAX))

(***************************************************************************)
(* programs/amm: the liquidity pool                                        *)
(***************************************************************************)
SWAP_FEE_BPS == 30
MINIMUM_LIQUIDITY == 1000

NoPool ==
    [initialized |-> FALSE, doom_reserve |-> 0, life_reserve |-> 0, lp_supply |-> 0,
     total_fees_doom |-> 0, total_fees_life |-> 0, authority |-> DefaultKey]

\* The accounts an AMM instruction leaves, with its error code.
AmmWorld ==
    [err |-> "Ok", pool |-> pool, pool_doom |-> pool_doom, pool_life |-> pool_life,
     lp_minted |-> lp_minted]
AmmErr(code) == [AmmWorld EXCEPT !.err = code]

\* a pool that books MINIMUM_LIQUIDITY LP tokens at creation without minting them
initialize_pool_books_minimum(authority) ==
    IF pool.initialized THEN AmmErr("AccountAlreadyInUse")
    ELSE [AmmWorld EXCEPT
            !.pool = [initialized |-> TRUE, doom_reserve |-> 0, life_reserve |-> 0,
                      lp_supply |-> MINIMUM_LIQUIDITY, total_fees_doom |-> 0,
                      total_fees_life |-> 0, authority |-> authority],
            !.pool_doom = 0, !.pool_life = 0, !.lp_minted = 0]

\* amm::initialize_pool
initialize_pool(authority) ==
    IF pool.initialized THEN AmmErr("AccountAlreadyInUse")
    ELSE [AmmWorld EXCEPT
            !.pool = [initialized |-> TRUE, doom_reserve |-> 0, life_reserve |-> 0,
                      lp_supply |-> 0, total_fees_doom |-> 0, total_fees_life |-> 0,
                      authority |-> authority],
            !.pool_doom = 0, !.pool_life = 0, !.lp_minted = 0]

\* amm::add_liquidity, the amount of LP tokens of the first deposit:
\* None when a checked operation overflows
first_lp_tokens(doom_amount, life_amount) ==
    and_then(checked_mul_u128(as_u128(doom_amount), as_u128(life_amount)), LAMBDA product :
    Some(f64_sqrt_as_u64(as_f64(product))))

\* LP tokens of a later deposit taken from the larger of the two ratios
proportional_lp_tokens_max(p, doom_amount, life_amount) ==
    and_then(checked_mul_u128(as_u128(doom_amount), as_u128(p.lp_supply)), LAMBDA dmul :
    and_then(checked_div_u128(dmul, as_u128(p.doom_reserve)), LAMBDA doom_ratio :
    and_then(checked_mul_u128(as_u128(life_amount), as_u128(p.lp_supply)), LAMBDA lmul :
    and_then(checked_div_u128(lmul, as_u128(p.life_reserve)), LAMBDA life_ratio :
    Some(as_u64(IF BLeq(doom_ratio, life_ratio) THEN life_ratio ELSE doom_ratio))))))

\* amm::add_liquidity, the amount of LP tokens of a later deposit
proportional_lp_tokens(p, doom_amount, life_amount) ==
    and_then(checked_mul_u128(as_u128(doom_amount), as_u128(p.lp_supply)), LAMBDA dmul :
    and_then(checked_div_u128(dmul, as_u128(p.doom_reserve)), LAMBDA doom_ratio :
    and_then(checked_mul_u128(as_u128(life_amount), as_u128(p.lp_supply)), LAMBDA lmul :
    and_then(checked_div_u128(lmul, as_u128(p.life_reserve)), LAMBDA life_ratio :
    Some(as_u64(BMin(doom_ratio, life_ratio)))))))

\* amm::add_liquidity.  funded: the user's token accounts hold the amounts.
add_liquidity(doom_amount, life_amount, min_lp_tokens, funded) ==
    IF ~pool.initialized THEN AmmErr("AccountNotInitialized")
    ELSE IF ~(doom_amount > 0 /\ life_amount > 0) THEN AmmErr("InvalidAmount")
    ELSE
    With(IF pool.lp_supply = 0 THEN first_lp_tokens(doom_amount, life_amount)
         ELSE proportional_lp_tokens(pool, doom_amount, life_amount), LAMBDA lp :
    IF ~lp.some THEN AmmErr("Overflow")
    ELSE IF pool.lp_supply = 0 /\ ~(lp.val > MINIMUM_LIQUIDITY)
    THEN AmmErr("InsufficientInitialLiquidity")
    ELSE IF ~(lp.val >= min_lp_tokens) THEN AmmErr("SlippageExceeded")
    ELSE IF ~funded THEN AmmErr("InsufficientFunds")
    ELSE
    LET doom_balance == checked_add_u64(pool_doom, doom_amount)
        life_balance == checked_add_u64(pool_life, life_amount)
        supply == checked_add_u64(lp_minted, lp.val)
        doom_reserve == checked_add_u64(pool.doom_reserve, doom_amount)
        life_reserve == checked_add_u64(pool.life_reserve, life_amount)
        lp_supply == checked_add_u64(pool.lp_supply, lp.val)
    IN  IF ~doom_balance.some \/ ~life_balance.some \/ ~supply.some
        THEN AmmErr("TokenOverflow")
        ELSE IF ~doom_reserve.some \/ ~life_reserve.some \/ ~lp_supply.some
        THEN AmmErr("Overflow")
        ELSE [AmmWorld EXCEPT
                !.pool = [pool EXCEPT !.doom_reserve = doom_reserve.val,
                                      !.life_reserve = life_reserve.val,
                                      !.lp_supply = lp_supply.val],
                !.pool_doom = doom_balance.val,
                !.pool_life = life_balance.val,
                !.lp_minted = supply.val])

\* a share of a reserve that rounds up
liquidity_share_ceil(lp_amount, reserve, lp_supply) ==
    and_then(checked_mul_u128(as_u128(lp_amount), as_u128(reserve)), LAMBDA prod :
    and_then(checked_div_ceil_u128(prod, as_u128(lp_supply)), LAMBDA quot :
    Some(as_u64(quot))))

\* amm::remove_liquidity, the amount paid out of one reserve
liquidity_share(lp_amount, reserve, lp_supply) ==
    and_then(checked_mul_u128(as_u128(lp_amount), as_u128(reserve)), LAMBDA prod :
    and_then(checked_div_u128(prod, as_u128(lp_supply)), LAMBDA quot :
    Some(as_u64(quot))))

\* amm::remove_liquidity on the accounts w.  held: the LP tokens in the
\* user's LP account.
remove_liquidity_in(w, lp_amount, min_doom, min_life, held) ==
    IF ~w.pool.initialized THEN [w EXCEPT !.err = "AccountNotInitialized"]
    ELSE IF ~(lp_amount > 0) THEN [w EXCEPT !.err = "InvalidAmount"]
    ELSE IF ~(w.pool.lp_supply > 0) THEN [w EXCEPT !.err = "EmptyPool"]
    ELSE
    With(liquidity_share(lp_amount, w.pool.doom_reserve, w.pool.lp_supply), LAMBDA doom_amount :
    With(liquidity_share(lp_amount, w.pool.life_reserve, w.pool.lp_supply), LAMBDA life_amount :
    IF ~doom_amount.some \/ ~life_amount.some THEN [w EXCEPT !.err = "Overflow"]
    ELSE IF ~(doom_amount.val >= min_doom) THEN [w EXCEPT !.err = "SlippageExceeded"]
    ELSE IF ~(life_amount.val >= min_life) THEN [w EXCEPT !.err = "SlippageExceeded"]
    ELSE IF lp_amount > held THEN [w EXCEPT !.err = "InsufficientFunds"]
    ELSE IF doom_amount.val > w.pool_doom \/ life_amount.val > w.pool_life
    THEN [w EXCEPT !.err = "InsufficientFunds"]
    ELSE
    LET doom_reserve == checked_sub_u64(w.pool.doom_reserve, doom_amount.val)
        life_reserve == checked_sub_u64(w.pool.life_reserve, life_amount.val)
        lp_supply == checked_sub_u64(w.pool.lp_supply, lp_amount)
    IN  IF ~doom_reserve.some \/ ~life_reserve.some \/ ~lp_supply.some
        THEN [w EXCEPT !.err = "Underflow"]
        ELSE [w EXCEPT
                !.pool = [w.pool EXCEPT !.doom_reserve = doom_reserve.val,
                                      !.life_reserve = life_reserve.val,
                                      !.lp_supply = lp_supply.val],
                !.pool_doom = w.pool_doom - doom_amount.val,
                !.pool_life = w.pool_life - life_amount.val,
                !.lp_minted = w.lp_minted - lp_amount]))

remove_liquidity(lp_amount, min_doom, min_life, held) ==
    remove_liquidity_in(AmmWorld, lp_amount, min_doom, min_life, held)

\* an output amount that takes no fee
swap_amount_out_no_fee(reserve_in, reserve_out, amount_in) ==
    and_then(checked_mul_u128(as_u128(amount_in), as_u128(10000)),
             LAMBDA amount_in_with_fee :
    and_then(checked_mul_u128(amount_in_with_fee, as_u128(reserve_out)), LAMBDA numerator :
    and_then(checked_mul_u128(as_u128(reserve_in), as_u128(10000)), LAMBDA scaled :
    and_then(checked_add_u128(scaled, amount_in_with_fee), LAMBDA denominator :
    and_then(checked_div_u128(numerator, denominator), LAMBDA quot :
    Some(as_u64(quot)))))))

\* an output amount at the price before the swap: the input is left out of
\* the denominator
swap_amount_out_spot_price(reserve_in, reserve_out, amount_in) ==
    and_then(checked_mul_u128(as_u128(amount_in), as_u128(10000 - SWAP_FEE_BPS)),
             LAMBDA amount_in_with_fee :
    and_then(checked_mul_u128(amount_in_with_fee, as_u128(reserve_out)), LAMBDA numerator :
    and_then(checked_mul_u128(as_u128(reserve_in), as_u128(10000)), LAMBDA denominator :
    and_then(checked_div_u128(numerator, denominator), LAMBDA quot :
    Some(as_u64(quot))))))

\* amm::swap, the output amount: None when a checked operation overflows
swap_amount_out(reserve_in, reserve_out, amount_in) ==
    and_then(checked_mul_u128(as_u128(amount_in), as_u128(10000 - SWAP_FEE_BPS)),
             LAMBDA amount_in_with_fee :
    and_then(checked_mul_u128(amount_in_with_fee, as_u128(reserve_out)), LAMBDA numerator :
    and_then(checked_mul_u128(as_u128(reserve_in), as_u128(10000)), LAMBDA scaled :
    and_then(checked_add_u128(scaled, amount_in_with_fee), LAMBDA denominator :
    and_then(checked_div_u128(numerator, denominator), LAMBDA quot :
    Some(as_u64(quot)))))))

\* amm::swap.  funded: the user's input token account holds amount_in.
swap(amount_in, min_amount_out, doom_to_life, funded) ==
    IF ~pool.initialized THEN AmmErr("AccountNotInitialized")
    ELSE IF ~(amount_in > 0) THEN AmmErr("InvalidAmount")
    ELSE IF ~(pool.doom_reserve > 0 /\ pool.life_reserve > 0) THEN AmmErr("EmptyPool")
    ELSE
    LET reserve_in == IF doom_to_life THEN pool.doom_reserve ELSE pool.life_reserve
        reserve_out == IF doom_to_life THEN pool.life_reserve ELSE pool.doom_reserve
        balance_in == IF doom_to_life THEN pool_doom ELSE pool_life
        balance_out == IF doom_to_life THEN pool_life ELSE pool_doom
    IN
    With(swap_amount_out(reserve_in, reserve_out, amount_in), LAMBDA amount_out :
    IF ~amount_out.some THEN AmmErr("Overflow")
    ELSE IF ~(amount_out.val >= min_amount_out) THEN AmmErr("SlippageExceeded")
    ELSE IF ~(amount_out.val < reserve_out) THEN AmmErr("InsufficientLiquidity")
    ELSE IF ~funded THEN AmmErr("InsufficientFunds")
    ELSE
    LET credited == checked_add_u64(balance_in, amount_in)
        new_in == checked_add_u64(reserve_in, amount_in)
        new_out == checked_sub_u64(reserve_out, amount_out.val)
        fee_mul == checked_mul_u64(amount_in, SWAP_FEE_BPS)
    IN  IF ~credited.some THEN AmmErr("TokenOverflow")
        ELSE IF amount_out.val > balance_out THEN AmmErr("InsufficientFunds")
        ELSE IF ~new_in.some THEN AmmErr("Overflow")
        ELSE IF ~new_out.some THEN AmmErr("Underflow")
        ELSE IF ~fee_mul.some THEN AmmErr("Overflow")
        ELSE
        LET fee == fee_mul.val \div 10000 IN
        IF doom_to_life
        THEN [AmmWorld EXCEPT
                !.pool = [pool EXCEPT
                    !.doom_reserve = new_in.val,
                    !.life_reserve = new_out.val,
                    !.total_fees_doom = saturating_add_u64(pool.total_fees_doom, fee)],
                !.pool_doom = credited.val,
                !.pool_life = pool_life - amount_out.val]
        ELSE [AmmWorld EXCEPT
                !.pool = [pool EXCEPT
                    !.life_reserve = new_in.val,
                    !.doom_reserve = new_out.val,
                    !.total_fees_life = saturating_add_u64(pool.total_fees_life, fee)],
                !.pool_life = credited.val,
                !.pool_doom = pool_doom - amount_out.val])

\* amm::get_quote, the amount logged: None when the arithmetic panics
quote_amount_out(reserve_in, reserve_out, amount_in, overflow_checks) ==
    and_then(unchecked_mul_u128(as_u128(amount_in), as_u128(10000 - SWAP_FEE_BPS),
                                overflow_checks), LAMBDA amount_in_with_fee :
    and_then(unchecked_mul_u128(amount_in_with_fee, as_u128(reserve_out), overflow_checks),
             LAMBDA numerator :
    and_then(unchecked_mul_u128(as_u128(reserve_in), as_u128(10000), overflow_checks),
             LAMBDA scaled :
    and_then(unchecked_add_u128(scaled, amount_in_with_fee, overflow_checks),
             LAMBDA denominator :
    unchecked_div_u128(numerator, denominator)))))

\* amm::get_quote: changes no account.  log is the message: "empty" for
\* "Pool is empty", else "quote" with amount_out (a u128, in limbs).
get_quote(amount_in, doom_to_life, overflow_checks) ==
    IF ~pool.initialized THEN [err |-> "AccountNotInitialized", log |-> "none", amount_out |-> <<>>]
    ELSE
    LET reserve_in == IF doom_to_life THEN pool.doom_reserve ELSE pool.life_reserve
        reserve_out == IF doom_to_life THEN pool.life_reserve ELSE pool.doom_reserve
    IN
    IF reserve_in = 0 \/ reserve_out = 0
    THEN [err |-> "Ok", log |-> "empty", amount_out |-> <<>>]
    ELSE
    With(quote_amount_out(reserve_in, reserve_out, amount_in, overflow_checks),
         LAMBDA amount_out :
    IF ~amount_out.some THEN [err |-> "Panic", log |-> "none", amount_out |-> <<>>]
    ELSE [err |-> "Ok", log |-> "quote", amount_out |-> amount_out.val])

(***************************************************************************)
(* The AMM as a state machine                                              *)
(***************************************************************************)
MaxAmmSteps == 3

PoolAuthorities == {1}
\* deposits: nothing, dust, scenario C's 10_000 and 40_000, a large one
LiquidityPairs == {<<0, 1>>, <<1, 1>>, <<10000, 40000>>, <<2^24, 2^24>>}
\* deposits tried on an empty pool only: scenario A's reserves, and a pair
\* whose product is a square less one
FirstDeposits == {<<1000000, 1000000>>, <<32767, 32769>>}
MinLpChoices == {0, 20001}
\* swap inputs: nothing, dust, scenario A's 10_000, one whose product overflows
SwapAmounts == {0, 7, 10000, 2^24}
MinOutChoices == {0, HugeAmount}
LpAmounts == {0, 1, 10000}
Funded == {TRUE}

InitAmm ==
    /\ pool = NoPool
    /\ pool_doom = 0
    /\ pool_life = 0
    /\ lp_minted = 0
    /\ amm_steps = 0

CommitAmm(r) ==
    /\ r.err = "Ok"
    /\ pool' = r.pool
    /\ pool_doom' = r.pool_doom
    /\ pool_life' = r.pool_life
    /\ lp_minted' = r.lp_minted
    /\ amm_steps' = amm_steps + 1
    /\ UNCHANGED <<pmVars, callVars>>

InitializePool ==
    /\ \E a \in PoolAuthorities :
        /\ initialize_pool(a).err = "Ok"
        /\ pool' = initialize_pool(a).pool
    /\ UNCHANGED <<pool_doom, pool_life, lp_minted, amm_steps, pmVars, callVars>>

AddLiquidity ==
    /\ amm_steps < MaxAmmSteps
    /\ \E dl \in LiquidityPairs \cup (IF pool.lp_supply = 0 THEN FirstDeposits ELSE {}),
          m \in MinLpChoices, funded \in Funded :
        CommitAmm(add_liquidity(dl[1], dl[2], m, funded))

RemoveLiquidity ==
    /\ amm_steps < MaxAmmSteps
    /\ \E lp \in LpAmounts \cup {l \in {pool.lp_supply - 1, pool.lp_supply,
                                          pool.lp_supply + 1} : l >= 0},
          md \in MinOutChoices, ml \in MinOutChoices :
        CommitAmm(remove_liquidity(lp, md, ml, lp_minted))

Swap ==
    /\ amm_steps < MaxAmmSteps
    /\ \E a \in SwapAmounts, m \in MinOutChoices, d \in BOOLEAN, funded \in Funded :
        CommitAmm(swap(a, m, d, funded))

NextAmm ==
    \/ InitializePool
    \/ AddLiquidity
    \/ RemoveLiquidity
    \/ Swap

\* calculate_payout called on its own, over the corners of its domain
PayoutPools == {0, 1, 300, 700, HugeAmount, U64_MAX}
PayoutWagers == {0, 1, 100, HugeAmount, U64_MAX}
PayoutFees == {0, 200, 10000}
EventOutcomes == {"None"} \cup Outcomes

PayoutCalls ==
    [ev_outcome : EventOutcomes, doom_pool : PayoutPools, life_pool : PayoutPools,
     bet_amount : PayoutWagers, bet_outcome : Outcomes, fee_basis_points : PayoutFees]

NoCall ==
    [ev_outcome |-> "None", doom_pool |-> 0, life_pool |-> 0, bet_amount |-> 0,
     bet_outcome |-> "Doom", fee_basis_points |-> 0]
NotCalled == [called |-> FALSE, ret |-> None]

CalculatePayout ==
    /\ ~payout_ret.called
    /\ payout_ret' =
         [called |-> TRUE,
          ret |-> calculate_payout(payout_call.ev_outcome, payout_call.doom_pool,
                                   payout_call.life_pool, payout_call.bet_amount,
                                   payout_call.bet_outcome, payout_call.fee_basis_points)]
    /\ UNCHANGED <<payout_call, pmVars, ammVars, quoteVars, commuteVars, streakVars>>

NextPayout == CalculatePayout

\* get_quote called on its own, on a pool just created or just after its
\* first deposit
QuoteDeposits == {<<10000, 40000>>, <<2^24, 2^24>>, <<HugeAmount, HugeAmount>>}
QuoteAmounts == {0, 1, 7, 10000, 2^24, HugeAmount, U64_MAX}

QuoteCalls == [amount_in : QuoteAmounts, doom_to_life : BOOLEAN, overflow_checks : BOOLEAN]

NoQuoteCall == [amount_in |-> 0, doom_to_life |-> TRUE, overflow_checks |-> TRUE]
NoQuote == [called |-> FALSE, err |-> "Ok", log |-> "none", amount_out |-> <<>>]

\* the pool after initialize_pool and a first add_liquidity(dl[1], dl[2], 0)
PoolAfterFirstDeposit(dl) ==
    [initialized |-> TRUE, doom_reserve |-> dl[1], life_reserve |-> dl[2],
     lp_supply |-> first_lp_tokens(dl[1], dl[2]).val,
     total_fees_doom |-> 0, total_fees_life |-> 0, authority |-> 1]

InitQuotePool ==
    \/ /\ pool = [NoPool EXCEPT !.initialized = TRUE, !.authority = 1]
       /\ pool_doom = 0 /\ pool_life = 0 /\ lp_minted = 0 /\ amm_steps = 0
    \/ \E dl \in QuoteDeposits :
        /\ pool = PoolAfterFirstDeposit(dl)
        /\ pool_doom = dl[1] /\ pool_life = dl[2]
        /\ lp_minted = pool.lp_supply /\ amm_steps = 1

GetQuote ==
    /\ ~quote_ret.called
    /\ quote_ret' =
         With(get_quote(quote_call.amount_in, quote_call.doom_to_life,
                        quote_call.overflow_checks), LAMBDA r :
            [called |-> TRUE, err |-> r.err, log |-> r.log, amount_out |-> r.amount_out])
    /\ UNCHANGED <<quote_call, pmVars, ammVars, payoutVars, commuteVars, streakVars>>

NextQuote == GetQuote


(***************************************************************************)
(* Two instructions on two events, applied in both orders                  *)
(***************************************************************************)
CommuteEvents == {1, 2}
\* How far an event has come when the two instructions arrive: not created,
\* open for bets, past its deadline, resolved either way, cancelled.
Stages == {"Absent", "Open", "Window", "ResolvedDoom", "ResolvedLife", "Cancelled"}
\* What the aggregate counters of PlatformConfig hold by then: nothing yet, or
\* one below the largest u64.
CounterBases == {0, U64_MAX - 1}
CommuteFees == {0, 10000}
CommuteAmounts == {1, HugeAmount}

\* The accounts before the two instructions.
CommuteCalls ==
    [stage : [CommuteEvents -> Stages], base : CounterBases, fee : CommuteFees,
     amount : CommuteAmounts]

\* An instruction with its signer and arguments.
CommuteOps(e, amount) ==
    [name : {"create_event"}, signer : {2, 3}, e : {e}, outcome : {"Doom"}, amount : {0}]
    \cup [name : {"place_bet"}, signer : Keys, e : {e}, outcome : Outcomes,
          amount : {amount}]
    \cup [name : {"resolve_event"}, signer : {1}, e : {e}, outcome : Outcomes, amount : {0}]
    \cup [name : {"cancel_event"}, signer : {1}, e : {e}, outcome : {"Doom"}, amount : {0}]
    \cup [name : {"claim_winnings", "claim_refund"}, signer : {2, 3}, e : {e},
          outcome : {"Doom"}, amount : {0}]

\* update_platform(fee_basis_points, new_oracle, paused) by the authority:
\* amount is the new fee (-1: None) and outcome tells whether paused is
\* Some(true) ("Paused") or None; new_oracle is None.
PlatformOps ==
    {[name |-> "update_platform", signer |-> 1, e |-> 0, outcome |-> "Paused", amount |-> -1],
     [name |-> "update_platform", signer |-> 1, e |-> 0, outcome |-> "None", amount |-> 0],
     [name |-> "update_platform", signer |-> 1, e |-> 0, outcome |-> "None", amount |-> 10000]}

NoOp == [name |-> "none", signer |-> 0, e |-> 0, outcome |-> "Doom", amount |-> 0]

\* The instruction op executed on the accounts w at time t.
Apply(w, t, op) ==
    CASE op.name = "create_event" -> create_event_in(w, t, op.signer, op.e, 1, 1, 3, 4)
      [] op.name = "place_bet" ->
            place_bet_in(w, t, op.signer, op.e, op.outcome, op.amount, TRUE)
      [] op.name = "resolve_event" -> resolve_event_in(w, t, op.signer, op.e, op.outcome)
      [] op.name = "cancel_event" -> cancel_event_in(w, t, op.signer, op.e)
      [] op.name = "claim_winnings" -> claim_winnings_in(w, t, op.signer, op.e)
      [] op.name = "claim_refund" -> claim_refund_in(w, t, op.signer, op.e)
      [] op.name = "update_platform" ->
            update_platform_in(w, t, op.signer,
                               IF op.amount < 0 THEN None ELSE Some(op.amount), None,
                               IF op.outcome = "Paused" THEN Some(TRUE) ELSE None)
      [] OTHER -> w

\* op executed after an instruction that left w: nothing if that one failed.
Then(w, t, op) == IF w.err = "Ok" THEN Apply(w, t, op) ELSE w

\* the function that maps every element of S to v, as a table
RECURSIVE Table(_, _)
Table(S, v) ==
    IF S = {} THEN <<>>
    ELSE LET x == CHOOSE y \in S : TRUE IN (x :> v) @@ Table(S \ {x}, v)

\* The platform after initialize(1, fee) and as many instructions as left
\* base in each aggregate counter, with no event created.
PlatformAt(base, fee) ==
    [err |-> "Ok",
     platform_config |->
        [initialized |-> TRUE, authority |-> 1, oracle |-> 1, fee_basis_points |-> fee,
         paused |-> FALSE, total_doom_fees |-> base, total_life_fees |-> base,
         total_events |-> base, total_bets |-> base],
     events |-> Table(CommuteEvents, NoEvent),
     user_bets |-> Table(CommuteEvents, Table(Keys, NoBet)),
     doom_vault |-> Table(CommuteEvents, 0),
     life_vault |-> Table(CommuteEvents, 0),
     user_stats |-> Table(Keys, NoStats),
     claim_log |-> Table(CommuteEvents, Table(Keys, NoClaim))]

\* What happens to event e at time 0 on its way to a stage: created by user 2
\* and, past the stage "Open", a bet on Doom (by user 2 on event 1, by user 3
\* on event 2) and a bet on Life by the other of the two.
StagedAt0(w, e, stage, amount) ==
    LET first == IF e = 1 THEN 2 ELSE 3
        other == IF e = 1 THEN 3 ELSE 2
        open == stage = "Open"
        created == create_event_in(w, 0, 2, e, 1, 1, IF open THEN 3 ELSE 1,
                                   IF open THEN 4 ELSE 2)
        one_bet == Then(created, 0, [name |-> "place_bet", signer |-> first, e |-> e,
                                     outcome |-> "Doom", amount |-> amount])
        two_bets == Then(one_bet, 0, [name |-> "place_bet", signer |-> other, e |-> e,
                                      outcome |-> "Life", amount |-> amount])
    IN  CASE stage = "Absent" -> w
          [] stage = "Open" -> created
          [] OTHER -> two_bets

\* What happens to it at time 1: resolved by the oracle or cancelled by the
\* authority.
StagedAt1(w, e, stage) ==
    CASE stage = "ResolvedDoom" -> resolve_event_in(w, 1, 1, e, "Doom")
      [] stage = "ResolvedLife" -> resolve_event_in(w, 1, 1, e, "Life")
      [] stage = "Cancelled" -> cancel_event_in(w, 1, 1, e)
      [] OTHER -> w

\* the accounts a call starts from
AccountsOf(c) ==
    StagedAt1(
        StagedAt1(
            StagedAt0(StagedAt0(PlatformAt(c.base, c.fee), 1, c.stage[1], c.amount),
                      2, c.stage[2], c.amount),
            1, c.stage[1]),
        2, c.stage[2])

NoCommuteCall ==
    [stage |-> [e \in CommuteEvents |-> "Absent"], base |-> 0, fee |-> 0, amount |-> 1]
NotCommuted ==
    [called |-> FALSE, a |-> NoOp, b |-> NoOp, a_alone |-> "Ok", b_alone |-> "Ok",
     a_then_b |-> PlatformAt(0, 0), b_then_a |-> PlatformAt(0, 0)]

\* The instructions a and b on the accounts of the call, a at time 1 and b at
\* time 2, each alone and one after the other in both orders.  a is an
\* instruction on event 1 or an update_platform, b an instruction on event 2.
Commuted(c, a, b) ==
    With(AccountsOf(c), LAMBDA w :
    With(Apply(w, 1, a), LAMBDA ra :
    With(Apply(w, 2, b), LAMBDA rb :
        [called |-> TRUE, a |-> a, b |-> b, a_alone |-> ra.err, b_alone |-> rb.err,
         a_then_b |-> Then(ra, 2, b), b_then_a |-> Then(rb, 1, a)])))

Commute ==
    /\ ~commute_ret.called
    /\ \E a \in CommuteOps(1, commute_call.amount) \cup PlatformOps,
          b \in CommuteOps(2, commute_call.amount) :
            commute_ret' = Commuted(commute_call, a, b)
    /\ UNCHANGED <<commute_call, pmVars, ammVars, payoutVars, quoteVars, streakVars>>

NextCommute == Commute


(***************************************************************************)
(* record_win and record_loss called on one UserStats account              *)
(***************************************************************************)
MaxCalls == 7
StreakWagers == {1, HugeAmount}
StreakWinnings == {0, 2}

RecordWin ==
    /\ Len(streak_calls) < MaxCalls
    /\ \E wagered \in StreakWagers, won \in StreakWinnings :
        streak_stats' = record_win(streak_stats, wagered, won)
    /\ streak_calls' =
         Append(streak_calls, [call |-> "W", streak |-> streak_stats'.current_streak])
    /\ UNCHANGED <<pmVars, ammVars, payoutVars, quoteVars, commuteVars>>

RecordLoss ==
    /\ Len(streak_calls) < MaxCalls
    /\ \E wagered \in StreakWagers :
        streak_stats' = record_loss(streak_stats, wagered)
    /\ streak_calls' =
         Append(streak_calls, [call |-> "L", streak |-> streak_stats'.current_streak])
    /\ UNCHANGED <<pmVars, ammVars, payoutVars, quoteVars, commuteVars>>

NextStreak ==
    \/ RecordWin
    \/ RecordLoss

vars == <<pmVars, ammVars, callVars>>

NoCalls ==
    /\ payout_call = NoCall /\ payout_ret = NotCalled
    /\ quote_call = NoQuoteCall /\ quote_ret = NoQuote
    /\ commute_call = NoCommuteCall /\ commute_ret = NotCommuted
    /\ streak_stats = NoStats /\ streak_calls = <<>>

Init == InitPM /\ InitAmm /\ NoCalls

InitPayout ==
    /\ InitPM /\ InitAmm
    /\ payout_call \in PayoutCalls /\ payout_ret = NotCalled
    /\ quote_call = NoQuoteCall /\ quote_ret = NoQuote
    /\ commute_call = NoCommuteCall /\ commute_ret = NotCommuted
    /\ streak_stats = NoStats /\ streak_calls = <<>>

InitQuote ==
    /\ InitPM /\ InitQuotePool
    /\ payout_call = NoCall /\ payout_ret = NotCalled
    /\ quote_call \in QuoteCalls /\ quote_ret = NoQuote
    /\ commute_call = NoCommuteCall /\ commute_ret = NotCommuted
    /\ streak_stats = NoStats /\ streak_calls = <<>>

\* get_quote alone, on every call in QuoteCalls.
SpecQuote == InitQuote /\ [][NextQuote]_vars

\* calculate_payout alone, on every call in PayoutCalls.
SpecPayout == InitPayout /\ [][NextPayout]_vars

\* The prediction market alone: the pool stays uninitialized.
Spec == Init /\ [][NextPM]_vars

\* The AMM alone: the prediction market stays uninitialized.
SpecAmm == Init /\ [][NextAmm]_vars

InitCommute ==
    /\ InitPM /\ InitAmm
    /\ payout_call = NoCall /\ payout_ret = NotCalled
    /\ quote_call = NoQuoteCall /\ quote_ret = NoQuote
    /\ commute_call \in CommuteCalls /\ commute_ret = NotCommuted
    /\ streak_stats = NoStats /\ streak_calls = <<>>

\* record_win and record_loss in every order on a UserStats account as
\* init_if_needed leaves it.
SpecStreak == Init /\ [][NextStreak]_vars

\* Two instructions in both orders, on every call in CommuteCalls.
SpecCommute == InitCommute /\ [][NextCommute]_vars

(***************************************************************************)
(* Properties of the prediction market                                     *)
(***************************************************************************)
Terminal(ev) == ev.exists /\ ev.status \in {"Resolved", "Cancelled"}

\* every place_bet and resolve_event against event e fails
BetAndResolveFail(e) ==
    /\ \A u \in Keys, o \in Outcomes, a \in BetAmounts, funded \in BOOLEAN :
        place_bet(u, e, o, a, funded).err # "Ok"
    /\ \A k \in Keys, o \in Outcomes : resolve_event(k, e, o).err # "Ok"

\* C1: once an event is Resolved or Cancelled no step changes its status (nor
\* anything else of the event), and in every state reached from then on every
\* place_bet and every resolve_event against it fails.
C1_StatusTerminal ==
    /\ [][\A e \in EventIds : Terminal(events[e]) => events'[e] = events[e]]_vars
    /\ [](\A e \in EventIds : Terminal(events[e]) => BetAndResolveFail(e))

\* C1 witness: an event cancelled while betting would otherwise still be open,
\* on a platform that is not paused.
C1_Witness ==
    \E e \in EventIds :
        /\ events[e].status = "Cancelled"
        /\ now < events[e].deadline
        /\ ~platform_config.paused
        /\ \E u \in Keys : ~user_bets[e][u].exists

\* C2: once a bet is claimed, every claim_winnings on it fails with
\* AlreadyClaimed and leaves every account as it is.
C2_ClaimSingleShot ==
    \A e \in EventIds, u \in Keys :
        user_bets[e][u].claimed =>
            /\ claim_winnings(u, e).err = "AlreadyClaimed"
            /\ claim_winnings(u, e).user_bets = user_bets
            /\ claim_winnings(u, e).doom_vault = doom_vault
            /\ claim_winnings(u, e).life_vault = life_vault
            /\ claim_winnings(u, e).platform_config = platform_config
            /\ claim_winnings(u, e).user_stats = user_stats

\* C2 witness: a claimed bet whose vaults could still pay it a second time.
C2_Witness ==
    \E e \in EventIds, u \in Keys :
        /\ user_bets[e][u].claimed
        /\ claim_log[e][u].payout > 0
        /\ doom_vault[e] + life_vault[e] >= claim_log[e][u].payout

\* C3: no bet is both claimed and refunded, and neither flag is ever reset.
C3_ClaimedRefundedExclusive ==
    [][\A e \in EventIds, u \in Keys :
         /\ ~(user_bets'[e][u].claimed /\ user_bets'[e][u].refunded)
         /\ user_bets[e][u].claimed => user_bets'[e][u].claimed
         /\ user_bets[e][u].refunded => user_bets'[e][u].refunded]_vars

\* C3 witness: a refunded bet (claim_winnings does not look at the flag).
C3_Witness ==
    \E e \in EventIds, u \in Keys :
        user_bets[e][u].refunded /\ ~user_bets[e][u].claimed

\* the sum of f[u] over the users u in S, in limbs
RECURSIVE BSum(_, _)
BSum(S, f) ==
    IF S = {} THEN <<>>
    ELSE LET u == CHOOSE v \in S : TRUE IN BAdd(f[u], BSum(S \ {u}, f))

Winners(e) ==
    {u \in Keys : user_bets[e][u].exists /\ is_winner(user_bets[e][u], events[e].outcome)}

\* what calculate_payout returns to user u of event e at fee rate f, payout
\* and fee together; nothing when it returns None
PayoutAndFee(e, u, f) ==
    With(calculate_payout(events[e].outcome, events[e].doom_pool, events[e].life_pool,
                          user_bets[e][u].amount, user_bets[e][u].outcome, f), LAMBDA p :
    IF p.some THEN BAdd(BN(p.val[1]), BN(p.val[2])) ELSE <<>>)

BothPools(e) == BAdd(BN(events[e].doom_pool), BN(events[e].life_pool))

FeeRates == {0, 1, 200, 10000}

\* the payouts and fees of the winning bets against the two pools, in one state
PayoutsWithinPools ==
    \A e \in EventIds :
        events[e].status = "Resolved" =>
            \A f \in FeeRates :
                BLeq(BSum(Winners(e), [u \in Winners(e) |-> PayoutAndFee(e, u, f)]), BothPools(e))

\* C4: for a resolved event, the payouts and fees calculate_payout returns to
\* the winning bets add up to at most winningPool + losingPool, at every fee
\* rate.
C4_PayoutsWithinPools == []PayoutsWithinPools

\* C4 witness: a resolved event with two winners and a loser, one winner paid
\* with a fee taken.
C4_Witness ==
    \E e \in EventIds :
        /\ events[e].status = "Resolved"
        /\ Cardinality(Winners(e)) >= 2
        /\ \E u \in Keys : user_bets[e][u].exists /\ u \notin Winners(e)
        /\ \E u \in Winners(e) : claim_log[e][u].claimed /\ claim_log[e][u].fee > 0

\* a resolved event with a winner, all of whose winners have claimed at fee
\* rate 0
AllClaimedWithoutFee(e) ==
    /\ events[e].status = "Resolved"
    /\ Winners(e) # {}
    /\ \A u \in Winners(e) :
        claim_log[e][u].claimed /\ claim_log[e][u].fee_basis_points = 0

PaidOut(e) == BSum(Winners(e), [u \in Winners(e) |-> BN(claim_log[e][u].payout)])

WinningPool(e) ==
    IF events[e].outcome = "Doom" THEN events[e].doom_pool ELSE events[e].life_pool
LosingPool(e) ==
    IF events[e].outcome = "Doom" THEN events[e].life_pool ELSE events[e].doom_pool

\* the bet of u takes a whole number of units of the losing pool, and its
\* payout fits a u64
PaidInFull(e, u) ==
    With(BDivMod(BMul(BN(user_bets[e][u].amount), BN(LosingPool(e))), BN(WinningPool(e))),
         LAMBDA dm :
            /\ dm.r = <<>>
            /\ Len(BAdd(BN(user_bets[e][u].amount), dm.q)) <= U64_LIMBS)

\* C5 as stated: at fee rate 0, once every winner has claimed, the payouts add
\* up to exactly winningPool + losingPool.
C5_PayoutsExhaustPools ==
    \A e \in EventIds : AllClaimedWithoutFee(e) => PaidOut(e) = BothPools(e)

\* C5, amended: at fee rate 0, once every winner has claimed, the payouts add
\* up to at most winningPool + losingPool, and to exactly that if and only if
\* winningPool divides wager * losingPool for every winning bet and every
\* payout fits 64 bits.
C5_PayoutsExhaustPoolsUpToDust ==
    \A e \in EventIds :
        AllClaimedWithoutFee(e) =>
            /\ BLeq(PaidOut(e), BothPools(e))
            /\ PaidOut(e) = BothPools(e) <=> \A u \in Winners(e) : PaidInFull(e, u)

\* C5 witness: two winners and a loser, every winner paid at fee rate 0.
C5_Witness ==
    \E e \in EventIds :
        /\ AllClaimedWithoutFee(e)
        /\ Cardinality(Winners(e)) >= 2
        /\ LosingPool(e) > 0

\* the reference formula on exact naturals, in limbs
ReferenceShare(c) ==
    LET winning_pool == IF c.bet_outcome = "Doom" THEN c.doom_pool ELSE c.life_pool
        losing_pool == IF c.bet_outcome = "Doom" THEN c.life_pool ELSE c.doom_pool
    IN BDiv(BMul(BN(c.bet_amount), BN(losing_pool)), BN(winning_pool))
ReferenceFee(c) == BDiv(BMul(ReferenceShare(c), BN(c.fee_basis_points)), BN(10000))
ReferencePayout(c) ==
    BAdd(BN(c.bet_amount), BSub(ReferenceShare(c), ReferenceFee(c)))

PayoutDue(c) ==
    /\ c.ev_outcome = c.bet_outcome
    /\ (IF c.bet_outcome = "Doom" THEN c.doom_pool ELSE c.life_pool) > 0

ScenarioB ==
    [ev_outcome |-> "Doom", doom_pool |-> 700, life_pool |-> 300, bet_amount |-> 100,
     bet_outcome |-> "Doom", fee_basis_points |-> 200]

\* C6 as stated: calculate_payout returns the reference payout and fee for
\* every wager, pool pair and fee rate when the bet's side is the outcome and
\* winningPool > 0, and no result otherwise; scenario B pays 142 with fee 0.
C6_PayoutMatchesReference ==
    payout_ret.called =>
        /\ PayoutDue(payout_call) =>
            /\ payout_ret.ret.some
            /\ BN(payout_ret.ret.val[1]) = ReferencePayout(payout_call)
            /\ BN(payout_ret.ret.val[2]) = ReferenceFee(payout_call)
        /\ ~PayoutDue(payout_call) => payout_ret.ret = None
        /\ payout_call = ScenarioB => payout_ret.ret = Some(<<142, 0>>)

\* The part of C6 that holds: no result when winningPool = 0 or the bet is on
\* the other side; a returned payout and a returned fee are the reference
\* ones cut to their low 64 bits; scenario B pays 142 with fee 0.
PayoutMatchesReferenceLowBits ==
    payout_ret.called =>
        /\ ~PayoutDue(payout_call) => payout_ret.ret = None
        /\ payout_ret.ret.some =>
            /\ payout_ret.ret.val[1] = as_u64(ReferencePayout(payout_call))
            /\ payout_ret.ret.val[2] = as_u64(ReferenceFee(payout_call))
        /\ payout_call = ScenarioB => payout_ret.ret = Some(<<142, 0>>)

(***************************************************************************)
(* Claims about the liquidity pool                                         *)
(***************************************************************************)
\* the swap amounts and directions tried in every reachable pool
SwapProbes == SwapAmounts \cup {1, 334, U64_MAX}

ReserveIn(d) == IF d THEN pool.doom_reserve ELSE pool.life_reserve
ReserveOut(d) == IF d THEN pool.life_reserve ELSE pool.doom_reserve
ReserveInOf(p, d) == IF d THEN p.doom_reserve ELSE p.life_reserve
ReserveOutOf(p, d) == IF d THEN p.life_reserve ELSE p.doom_reserve

\* the reference formula on exact naturals, in limbs
ReferenceNumerator(a, d) == BMul(BMul(BN(a), BN(9970)), BN(ReserveOut(d)))
ReferenceDenominator(a, d) ==
    BAdd(BMul(BN(ReserveIn(d)), BN(10000)), BMul(BN(a), BN(9970)))
ReferenceAmountOut(a, d) == BVal(BDiv(ReferenceNumerator(a, d), ReferenceDenominator(a, d)))

Fits128(a, d) ==
    /\ Len(ReferenceNumerator(a, d)) <= U128_LIMBS
    /\ Len(ReferenceDenominator(a, d)) <= U128_LIMBS

PositiveReserves == pool.initialized /\ pool.doom_reserve > 0 /\ pool.life_reserve > 0

PoolUnchanged(r) ==
    /\ r.pool = pool
    /\ r.pool_doom = pool_doom
    /\ r.pool_life = pool_life
    /\ r.lp_minted = lp_minted

\* the minimum outputs tried around the amount out
MinOutProbes(out) == {m \in {0, out, out + 1, HugeAmount} : m <= U64_MAX}

\* a swap of a with minimum m in direction d does what the reference says
SwapAsReference(a, m, d) ==
    With(ReferenceAmountOut(a, d), LAMBDA out :
    With(swap(a, m, d, TRUE), LAMBDA r :
        /\ swap_amount_out(ReserveIn(d), ReserveOut(d), a) = Some(out)
        /\ out < m => r.err = "SlippageExceeded" /\ PoolUnchanged(r)
        /\ r.err = "Ok" =>
            /\ ReserveInOf(r.pool, d) = ReserveIn(d) + a
            /\ ReserveOutOf(r.pool, d) = ReserveOut(d) - out))

\* C7 as stated: for every amountIn > 0, direction and positive reserves the
\* swap computes the reference amountOut, a successful swap moves the
\* reserves by exactly amountIn and amountOut, and the swap fails with
\* SlippageExceeded, the pool unchanged, when amountOut < minAmountOut.
C7_SwapMatchesReference ==
    PositiveReserves =>
        \A a \in SwapProbes, d \in BOOLEAN :
            a > 0 =>
                \A m \in MinOutProbes(ReferenceAmountOut(a, d)) : SwapAsReference(a, m, d)

\* the swap as the reference formula gives it, or Overflow, in one pool
SwapMatchesReferenceWithin128Bits ==
    PositiveReserves =>
        \A a \in SwapProbes, d \in BOOLEAN :
            a > 0 =>
                \A m \in MinOutProbes(ReferenceAmountOut(a, d)) :
                    IF Fits128(a, d) THEN SwapAsReference(a, m, d)
                    ELSE With(swap(a, m, d, TRUE), LAMBDA r :
                            r.err = "Overflow" /\ PoolUnchanged(r))

\* C7, amended: the same whenever amountIn * 9970 * reserveOut fits 128 bits;
\* when it does not, the swap fails with Overflow, the pool unchanged,
\* whatever minAmountOut is.
C7_SwapMatchesReferenceWithin128Bits == []SwapMatchesReferenceWithin128Bits

\* C7 witness: a swap has gone through (its fee is on the counter) and, in
\* the pool it left, one probe fits 128 bits and another does not.
C7_Witness ==
    /\ PositiveReserves
    /\ pool.total_fees_doom + pool.total_fees_life > 0
    /\ \E a \in SwapProbes, d \in BOOLEAN : a > 0 /\ Fits128(a, d)
    /\ \E a \in SwapProbes, d \in BOOLEAN : a > 0 /\ ~Fits128(a, d)

Product(p) == BMul(BN(p.doom_reserve), BN(p.life_reserve))

\* C8: doom_reserve * life_reserve never decreases across a successful swap,
\* in either direction, nor across a successful add_liquidity, in every
\* reachable pool and for every input.
C8_ProductNeverDecreases ==
    /\ \A a \in SwapProbes, m \in MinOutChoices, d \in BOOLEAN :
        With(swap(a, m, d, TRUE), LAMBDA r :
            r.err = "Ok" => BLeq(Product(pool), Product(r.pool)))
    /\ \A dl \in LiquidityPairs, m \in MinLpChoices :
        With(add_liquidity(dl[1], dl[2], m, TRUE), LAMBDA r :
            r.err = "Ok" => BLeq(Product(pool), Product(r.pool)))

\* C8 witness: a pool with liquidity that a swap has gone through and that
\* takes another swap in each direction and another deposit.
C8_Witness ==
    /\ PositiveReserves
    /\ pool.total_fees_doom + pool.total_fees_life > 0
    /\ \A d \in BOOLEAN : \E a \in SwapProbes : swap(a, 0, d, TRUE).err = "Ok"
    /\ \E dl \in LiquidityPairs : add_liquidity(dl[1], dl[2], 0, TRUE).err = "Ok"

\* C9: in every pool reachable from initialize_pool by add_liquidity,
\* remove_liquidity and swap, lp_supply > 0 implies both reserves > 0.
C9_SupplyImpliesReserves ==
    pool.lp_supply > 0 => pool.doom_reserve > 0 /\ pool.life_reserve > 0

\* C9 witness: LP tokens outstanding after part of the liquidity was removed.
C9_Witness ==
    /\ pool.lp_supply > 0
    /\ amm_steps >= 2
    /\ \E dl \in LiquidityPairs :
        pool.doom_reserve < dl[1] /\ pool.life_reserve < dl[2] /\ pool.lp_supply < dl[1]

\* C10: on a pool with both reserves > 0 the computed amountOut is strictly
\* less than reserveOut, and no swap fails with InsufficientLiquidity.
C10_AmountOutBelowReserve ==
    PositiveReserves =>
        \A a \in SwapProbes, d \in BOOLEAN :
            a > 0 =>
                /\ With(swap_amount_out(ReserveIn(d), ReserveOut(d), a), LAMBDA out :
                        out.some => out.val < ReserveOut(d))
                /\ \A m \in MinOutChoices :
                    With(swap(a, m, d, TRUE), LAMBDA r :
                        /\ r.err # "InsufficientLiquidity"
                        /\ r.err = "Ok" => ReserveOutOf(r.pool, d) > 0)

\* C10 witness: a pool left by a swap, in which a swap larger than the
\* reserve it goes into takes more than half of the other reserve.
C10_Witness ==
    /\ PositiveReserves
    /\ pool.total_fees_doom + pool.total_fees_life > 0
    /\ \E a \in SwapProbes, d \in BOOLEAN :
        /\ a > ReserveIn(d)
        /\ swap(a, 0, d, TRUE).err = "Ok"
        /\ 2 * swap_amount_out(ReserveIn(d), ReserveOut(d), a).val > ReserveOut(d)

\* the amount out swap computes for the call of get_quote, in limbs
SwapAmountOutOfQuote ==
    With(swap_amount_out(ReserveIn(quote_call.doom_to_life),
                         ReserveOut(quote_call.doom_to_life), quote_call.amount_in),
         LAMBDA out : IF out.some THEN Some(BN(out.val)) ELSE None)

QuoteOf(q) == IF q.err = "Ok" /\ q.log = "quote" THEN Some(q.amount_out) ELSE None

\* C11 as stated: on identical reserves, amountIn and direction, whenever
\* get_quote or the computation of swap completes, both complete and give the
\* same amountOut.
C11_QuoteEqualsSwap ==
    (quote_ret.called /\ PositiveReserves) =>
        ((QuoteOf(quote_ret).some \/ SwapAmountOutOfQuote.some) =>
            QuoteOf(quote_ret) = SwapAmountOutOfQuote)

\* The part of C11 that holds: the two agree whenever swap's checked
\* computation completes, and in a build with overflow-checks get_quote
\* completes on no other input.
QuoteEqualsSwapWhenChecked ==
    (quote_ret.called /\ PositiveReserves) =>
        /\ SwapAmountOutOfQuote.some => QuoteOf(quote_ret) = SwapAmountOutOfQuote
        /\ quote_call.overflow_checks => QuoteOf(quote_ret) = SwapAmountOutOfQuote

\* the deposits tried in every reachable pool
DepositProbes == LiquidityPairs \cup {<<7, 10000>>, <<334, 1>>, <<2^15 - 1, 2^15 + 1>>}

\* handing back at once the LP tokens minted by the deposit that left the
\* accounts r pays out at most a of DOOM and b of LIFE
PaysBackAtMost(r, a, b) ==
    With(r.lp_minted - lp_minted, LAMBDA m :
    With(remove_liquidity_in(r, m, 0, 0, m), LAMBDA q :
        q.err = "Ok" =>
            /\ r.pool_doom - q.pool_doom <= a
            /\ r.pool_life - q.pool_life <= b))

\* C12: after every successful add_liquidity(a, b) that mints m LP tokens, an
\* immediately following remove_liquidity(m) pays out at most a of DOOM and
\* at most b of LIFE, in every reachable pool.
C12_RoundTripPaysNoMore ==
    \A dl \in DepositProbes :
        With(add_liquidity(dl[1], dl[2], 0, TRUE), LAMBDA r :
            r.err = "Ok" => PaysBackAtMost(r, dl[1], dl[2]))

\* C12 witness: a pool whose price a swap has moved, where a deposit mints LP
\* tokens and handing them back at once succeeds and pays less than was put in.
C12_Witness ==
    /\ pool.total_fees_doom + pool.total_fees_life > 0
    /\ \E dl \in DepositProbes :
        With(add_liquidity(dl[1], dl[2], 0, TRUE), LAMBDA r :
            /\ r.err = "Ok"
            /\ r.lp_minted > lp_minted
            /\ With(remove_liquidity_in(r, r.lp_minted - lp_minted, 0, 0,
                                        r.lp_minted - lp_minted), LAMBDA q :
                    q.err = "Ok" /\ r.pool_life - q.pool_life < dl[2]))

\* the reference LP amount of a deposit of a and b into the pool, on exact
\* naturals, in limbs
ReferenceLp(a, b) ==
    IF pool.lp_supply = 0
    THEN BN(ISqrt(BMul(BN(a), BN(b)), 0, U64_MAX + 2))
    ELSE BMin(BDiv(BMul(BN(a), BN(pool.lp_supply)), BN(pool.doom_reserve)),
              BDiv(BMul(BN(b), BN(pool.lp_supply)), BN(pool.life_reserve)))

\* the minimum LP amounts tried around the reference amount
MinLpProbes(ref) ==
    {0} \cup (IF Len(ref) <= U64_LIMBS
              THEN {m \in {BVal(ref), BVal(ref) + 1} : m <= U64_MAX} ELSE {})

\* add_liquidity(a, b, m) does what the reference amount ref says
DepositAsReference(a, b, m, ref) ==
    With(add_liquidity(a, b, m, TRUE), LAMBDA r :
        /\ (pool.lp_supply = 0 /\ BLeq(ref, BN(MINIMUM_LIQUIDITY))) =>
            r.err = "InsufficientInitialLiquidity"
        /\ (~(pool.lp_supply = 0 /\ BLeq(ref, BN(MINIMUM_LIQUIDITY))) /\ BLt(ref, BN(m))) =>
            r.err = "SlippageExceeded"
        /\ r.err = "Ok" =>
            /\ BN(r.lp_minted - lp_minted) = ref
            /\ BN(r.pool.lp_supply - pool.lp_supply) = ref
            /\ r.pool.doom_reserve = pool.doom_reserve + a
            /\ r.pool.life_reserve = pool.life_reserve + b)

\* C13 as stated: for every pair of positive amounts add_liquidity mints
\* floor(sqrt(a * b)) into an empty pool, failing with
\* InsufficientInitialLiquidity unless that exceeds 1000, and
\* min(floor(a * lp_supply / reserveA), floor(b * lp_supply / reserveB))
\* otherwise; it fails with SlippageExceeded when that is below minLP, and on
\* success adds both amounts to the reserves; (10_000, 40_000) mints 20_000.
C13_MintMatchesReference ==
    pool.initialized =>
        /\ \A dl \in DepositProbes :
            (dl[1] > 0 /\ dl[2] > 0) =>
                \A m \in MinLpProbes(ReferenceLp(dl[1], dl[2])) :
                    DepositAsReference(dl[1], dl[2], m, ReferenceLp(dl[1], dl[2]))
        /\ pool.lp_supply = 0 =>
            add_liquidity(10000, 40000, 0, TRUE).lp_minted = lp_minted + 20000

\* The part of C13 that holds: the same for every deposit into a pool with
\* LP tokens outstanding, and for a first deposit whose product the f64
\* holds exactly and is a perfect square or short of the next one by more
\* than the f64 rounds away.
MintMatchesReferenceButFirstRoot ==
    pool.initialized =>
        /\ \A dl \in DepositProbes :
            (dl[1] > 0 /\ dl[2] > 0) =>
                With(ReferenceLp(dl[1], dl[2]), LAMBDA ref :
                    (pool.lp_supply > 0
                     \/ BN(f64_sqrt_as_u64(as_f64(BMul(BN(dl[1]), BN(dl[2]))))) = ref) =>
                        \A m \in MinLpProbes(ref) : DepositAsReference(dl[1], dl[2], m, ref))
        /\ pool.lp_supply = 0 =>
            add_liquidity(10000, 40000, 0, TRUE).lp_minted = lp_minted + 20000

\* the LP amounts tried on the pool: none, one, all, one more than all
LpProbes ==
    LpAmounts \cup {l \in {pool.lp_supply - 1, pool.lp_supply, pool.lp_supply + 1} :
                        l >= 0 /\ l <= U64_MAX}

\* floor(lp * reserve / lp_supply) on exact naturals
ReferenceShare128(lp, reserve) == BVal(BDiv(BMul(BN(lp), BN(reserve)), BN(pool.lp_supply)))

\* remove_liquidity(lp, md, ml) of a holder of all LP tokens pays the shares
\* sd and sl, or fails with SlippageExceeded when one is below its minimum
RemovalAsReference(lp, md, ml, sd, sl) ==
    With(remove_liquidity(lp, md, ml, lp_minted), LAMBDA r :
        IF sd < md \/ sl < ml
        THEN r.err = "SlippageExceeded" /\ PoolUnchanged(r)
        ELSE /\ r.err = "Ok"
             /\ pool_doom - r.pool_doom = sd
             /\ pool_life - r.pool_life = sl
             /\ r.pool.doom_reserve = pool.doom_reserve - sd
             /\ r.pool.life_reserve = pool.life_reserve - sl
             /\ r.pool.lp_supply = pool.lp_supply - lp
             /\ r.lp_minted = lp_minted - lp)

\* remove_liquidity as the reference shares give it, in one pool
RemovalMatchesReference ==
    pool.initialized =>
        \A lp \in LpProbes :
            IF 0 < lp /\ lp <= pool.lp_supply
            THEN With(ReferenceShare128(lp, pool.doom_reserve), LAMBDA sd :
                 With(ReferenceShare128(lp, pool.life_reserve), LAMBDA sl :
                    \A md \in MinOutProbes(sd), ml \in MinOutProbes(sl) :
                        RemovalAsReference(lp, md, ml, sd, sl)))
            ELSE With(remove_liquidity(lp, 0, 0, lp_minted), LAMBDA r :
                    r.err # "Ok" /\ PoolUnchanged(r))

\* C14: remove_liquidity(lp, minA, minB) with 0 < lp <= lp_supply pays
\* floor(lp * reserve / lp_supply) of each reserve, takes the payouts off the
\* reserves and lp off lp_supply, and fails with SlippageExceeded, the pool
\* unchanged, when a payout is below its minimum; with lp = 0, lp_supply = 0
\* or lp > lp_supply it fails and leaves the pool unchanged.
C14_RemovalMatchesReference == []RemovalMatchesReference

\* a removal of one LP token has been paid rounded down (nothing of the
\* smaller reserve), and a further one is possible
C14_Witness ==
    /\ pool.lp_supply = 19999
    /\ pool.doom_reserve = 10000
    /\ pool.life_reserve = 39998
    /\ remove_liquidity(1, 0, 0, lp_minted).err = "Ok"

(***************************************************************************)
(* Properties of the life cycle of an event                                *)
(***************************************************************************)
\* C15: the outcome of an event is set exactly when its status is Resolved:
\* unset while Active and while Cancelled, set at the step that resolves the
\* event, and never altered from then on.
C15_OutcomeIffResolved ==
    /\ [](\A e \in EventIds :
            events[e].exists =>
                (events[e].outcome \in Outcomes <=> events[e].status = "Resolved"))
    /\ [][\A e \in EventIds :
            (events[e].exists /\ events[e].status = "Resolved") =>
                events'[e].outcome = events[e].outcome]_vars

\* C15 witness: a resolved event with its outcome, which another oracle
\* call or a cancel_event could have aimed at.
C15_Witness ==
    \E e \in EventIds :
        /\ events[e].status = "Resolved"
        /\ events[e].outcome = "Life"
        /\ now <= events[e].resolution_deadline
        /\ events[e].doom_pool > 0

\* the event may be resolved now
InResolutionWindow(ev) ==
    /\ ev.status = "Active"
    /\ ev.deadline <= now
    /\ now <= ev.resolution_deadline

\* a resolve_event result r on event e respects the resolution window
ResolvesInWindowOnly(r, e) ==
    /\ r.err = "Ok" => InResolutionWindow(events[e])
    /\ ~InResolutionWindow(events[e]) =>
        /\ r.err # "Ok"
        /\ r.events = events
        /\ r.platform_config = platform_config

\* C16 as stated: resolve_event succeeds only when the event is Active and
\* deadline <= now <= resolution_deadline; before the deadline, after the
\* resolution deadline or on a non-Active event it fails and leaves the event
\* and the platform counters unchanged; this for the handler of
\* instructions/resolve_event.rs and for the one of the lib.rs program.
C16_ResolveOnlyInWindow ==
    \A e \in EventIds :
        events[e].exists =>
            \A k \in Keys, o \in Outcomes :
                /\ ResolvesInWindowOnly(resolve_event(k, e, o), e)
                /\ ResolvesInWindowOnly(prediction_market_resolve_event(k, e, o), e)

\* The part of C16 that holds: the same for the handler of
\* instructions/resolve_event.rs, and for the one of lib.rs up to the
\* resolution deadline.
ResolveOnlyInWindowButLib ==
    \A e \in EventIds :
        events[e].exists =>
            \A k \in Keys, o \in Outcomes :
                /\ ResolvesInWindowOnly(resolve_event(k, e, o), e)
                /\ now <= events[e].resolution_deadline =>
                    ResolvesInWindowOnly(prediction_market_resolve_event(k, e, o), e)

\* the oracle missed the resolution window of the event
MissedWindow(ev) == ev.exists /\ ev.status = "Active" /\ now > ev.resolution_deadline

Settings(c) == <<c.fee_basis_points, c.oracle, c.paused>>

\* the step is a resolve_event on e signed by the oracle in office
ResolvedByOracle(e) ==
    \E o \in Outcomes :
        /\ resolve_event(platform_config.oracle, e, o).err = "Ok"
        /\ events' = resolve_event(platform_config.oracle, e, o).events

\* the step is a cancel_event on e signed by the authority
CancelledByAuthority(e) ==
    /\ cancel_event(platform_config.authority, e).err = "Ok"
    /\ events' = cancel_event(platform_config.authority, e).events

\* the step is an update_platform signed by the authority
UpdatedByAuthority ==
    \E f \in OptionOf(FeeChoices), o \in OptionOf(NewOracles), p \in OptionOf(BOOLEAN) :
        /\ update_platform(platform_config.authority, f, o, p).err = "Ok"
        /\ platform_config' = update_platform(platform_config.authority, f, o, p).platform_config

\* every key but the one in office is refused
OthersRefused ==
    platform_config.initialized =>
        /\ \A k \in Keys \ {platform_config.oracle} : \A e \in EventIds, o \in Outcomes :
            events[e].exists => resolve_event(k, e, o).err = "UnauthorizedOracle"
        /\ \A k \in Keys \ {platform_config.authority} :
            /\ \A e \in EventIds :
                events[e].exists => cancel_event(k, e).err = "Unauthorized"
            /\ \A f \in OptionOf(FeeChoices), o \in OptionOf(NewOracles),
                  p \in OptionOf(BOOLEAN) :
                update_platform(k, f, o, p).err = "Unauthorized"

\* the oracle in office resolves an event in its resolution window
OracleResolves ==
    \A e \in EventIds, o \in Outcomes :
        (platform_config.initialized /\ events[e].exists /\ InResolutionWindow(events[e])) =>
            resolve_event(platform_config.oracle, e, o).err = "Ok"

\* C18: an event becomes Resolved only through a resolve_event signed by the
\* key that platform_config.oracle holds at that moment, and Cancelled only
\* through a cancel_event signed by platform_config.authority; the fee, the
\* oracle and the paused flag of an existing PlatformConfig change only through
\* an update_platform signed by platform_config.authority.  Whoever is not
\* the oracle in office, a replaced oracle included, is refused by
\* resolve_event with UnauthorizedOracle, and the oracle in office succeeds.
C18_OnlyAuthorizedSigners ==
    /\ [][\A e \in EventIds :
            /\ (events[e].status # "Resolved" /\ events'[e].status = "Resolved") =>
                ResolvedByOracle(e)
            /\ (events[e].status # "Cancelled" /\ events'[e].status = "Cancelled") =>
                CancelledByAuthority(e)]_vars
    /\ [][(platform_config.initialized
           /\ Settings(platform_config') # Settings(platform_config)) =>
                UpdatedByAuthority]_vars
    /\ []OthersRefused
    /\ []OracleResolves

\* C18 witness: update_platform has replaced the oracle, the authority that
\* held the office before is no longer the oracle, and an event is in its
\* resolution window.
C18_Witness ==
    /\ platform_config.initialized
    /\ platform_config.oracle # platform_config.authority
    /\ \E e \in EventIds : events[e].exists /\ InResolutionWindow(events[e])

(***************************************************************************)
(* Properties of place_bet                                                 *)
(***************************************************************************)
\* the instruction result r left every account as it was
NothingChanged(r) ==
    /\ r.platform_config = platform_config
    /\ r.events = events
    /\ r.user_bets = user_bets
    /\ r.doom_vault = doom_vault
    /\ r.life_vault = life_vault
    /\ r.user_stats = user_stats

\* the errors of the requirements that a bet of amount a on event e misses
MissedRequirements(e, a) ==
    (IF a > 0 THEN {} ELSE {"InvalidBetAmount"})
    \cup (IF ~platform_config.paused THEN {} ELSE {"PlatformPaused"})
    \cup (IF events[e].status = "Active" /\ now < events[e].deadline
          THEN {} ELSE {"EventEnded"})

\* C19: place_bet succeeds only if amount > 0, the platform is not paused, the
\* event is Active and now < deadline; when one of these does not hold it
\* fails, a first bet with the error of a requirement it misses
\* (InvalidBetAmount, PlatformPaused, EventEnded), and it creates no UserBet
\* and changes no pool, bettor count, platform counter, vault or user stats.
C19_PlaceBetRequirements ==
    platform_config.initialized =>
        \A e \in EventIds :
            events[e].exists =>
                \A u \in Keys, o \in Outcomes, a \in BetAmounts, funded \in BOOLEAN :
                    With(place_bet(u, e, o, a, funded), LAMBDA r :
                        /\ r.err = "Ok" => MissedRequirements(e, a) = {}
                        /\ MissedRequirements(e, a) # {} =>
                            /\ r.err # "Ok"
                            /\ NothingChanged(r)
                            /\ ~user_bets[e][u].exists => r.err \in MissedRequirements(e, a))

\* C19 witness: the platform was paused while an event with a bet is open
\* for betting and a user has not bet on it yet.
C19_Witness ==
    /\ platform_config.paused
    /\ \E e \in EventIds :
        /\ is_betting_open(events[e], now)
        /\ events[e].total_bettors > 0
        /\ \E u \in Keys : ~user_bets[e][u].exists

\* C20: there is at most one UserBet per event and user: once a user has a bet
\* on an event every further place_bet of that user on it fails, whatever the
\* side and the amount, and leaves every account as it is; the side and the
\* amount of the bet never change and the bettor count of the event is the
\* number of its bets.
C20_OneBetPerUser ==
    /\ [](\A e \in EventIds, u \in Keys :
            user_bets[e][u].exists =>
                \A o \in Outcomes, a \in BetAmounts, funded \in BOOLEAN :
                    With(place_bet(u, e, o, a, funded), LAMBDA r :
                        r.err # "Ok" /\ NothingChanged(r)))
    /\ [](\A e \in EventIds :
            events[e].total_bettors = Cardinality({u \in Keys : user_bets[e][u].exists}))
    /\ [][\A e \in EventIds, u \in Keys :
            user_bets[e][u].exists =>
                /\ user_bets'[e][u].exists
                /\ user_bets'[e][u].outcome = user_bets[e][u].outcome
                /\ user_bets'[e][u].amount = user_bets[e][u].amount]_vars

\* C20 witness: a user has bet on an event that is still open for betting on
\* a platform that is not paused, so that only the existing bet stands in the
\* way of a second one.
C20_Witness ==
    \E e \in EventIds, u \in Keys :
        /\ user_bets[e][u].exists
        /\ user_bets[e][u].outcome = "Doom"
        /\ is_betting_open(events[e], now)
        /\ ~platform_config.paused

(***************************************************************************)
(* Properties of claim_refund, create_event and update_platform            *)
(***************************************************************************)
\* the result r of claim_refund(u, e) refunds the bet and nothing else
RefundsTheBet(r, u, e) ==
    With(user_bets[e][u], LAMBDA bet :
        /\ events[e].status = "Cancelled"
        /\ bet.exists
        /\ ~bet.refunded
        /\ r.doom_vault[e] = doom_vault[e] - (IF bet.outcome = "Doom" THEN bet.amount ELSE 0)
        /\ r.life_vault[e] = life_vault[e] - (IF bet.outcome = "Life" THEN bet.amount ELSE 0)
        /\ r.user_bets = [user_bets EXCEPT ![e][u].refunded = TRUE]
        /\ r.platform_config = platform_config
        /\ r.events = events
        /\ r.user_stats = user_stats)

\* every bet on event e has been refunded
AllRefunded(e) ==
    \A u \in Keys : user_bets[e][u].exists => user_bets[e][u].refunded

\* C21: claim_refund succeeds only when the event is Cancelled and the bet not
\* yet refunded (and then it does succeed); it takes exactly the amount of the
\* bet out of the vault of the side of the bet, takes no fee, changes no
\* platform total and no event pool, and sets refunded.  Once every bet of a
\* cancelled event is refunded both vaults of the event hold zero.
C21_RefundReturnsTheBet ==
    \A e \in EventIds :
        /\ \A u \in Keys :
            With(claim_refund(u, e), LAMBDA r :
                /\ r.err = "Ok" => RefundsTheBet(r, u, e)
                /\ (events[e].exists /\ events[e].status = "Cancelled"
                    /\ user_bets[e][u].exists /\ ~user_bets[e][u].refunded) => r.err = "Ok")
        /\ (events[e].exists /\ events[e].status = "Cancelled" /\ AllRefunded(e)) =>
            doom_vault[e] = 0 /\ life_vault[e] = 0

\* C21 witness: a cancelled event with bets on both sides, all refunded.
C21_Witness ==
    \E e \in EventIds :
        /\ events[e].status = "Cancelled"
        /\ events[e].doom_pool > 0
        /\ events[e].life_pool > 0
        /\ AllRefunded(e)

\* the arguments tried on create_event: the ends of each range and one beyond
TitleProbes == TitleLens \cup {128}
DescriptionProbes == DescriptionLens \cup {512}
DeadlineProbes == {-1} \cup 0..(MaxTime + 1)

\* C22: create_event succeeds only if the platform exists and is not paused,
\* the event does not exist yet, the title
\* has 1..128 bytes, the description 1..512, deadline > now and
\* resolution_deadline > deadline, and the event it creates is Active with
\* both pools zero, no bettors and no outcome; so every event of every
\* reachable state has resolution_deadline > deadline, and no later step
\* changes either deadline.
C22_CreateEventRequirements ==
    /\ [](\A c \in Creators, e \in EventIds :
            (~platform_config.initialized \/ events[e].exists) =>
                create_event(c, e, 1, 1, now + 1, now + 2).err # "Ok")
    /\ [](\A c \in Creators, e \in EventIds :
            (platform_config.initialized /\ ~events[e].exists) =>
            \A tl \in TitleProbes, dl \in DescriptionProbes,
               d \in DeadlineProbes, rd \in DeadlineProbes :
            With(create_event(c, e, tl, dl, d, rd), LAMBDA r :
                r.err = "Ok" =>
                    /\ ~platform_config.paused
                    /\ 1 <= tl /\ tl <= 128
                    /\ 1 <= dl /\ dl <= 512
                    /\ d > now
                    /\ rd > d
                    /\ r.events[e].exists
                    /\ r.events[e].deadline = d
                    /\ r.events[e].resolution_deadline = rd
                    /\ r.events[e].status = "Active"
                    /\ r.events[e].outcome = "None"
                    /\ r.events[e].doom_pool = 0
                    /\ r.events[e].life_pool = 0
                    /\ r.events[e].total_bettors = 0))
    /\ [](\A e \in EventIds :
            events[e].exists => events[e].resolution_deadline > events[e].deadline)
    /\ [][\A e \in EventIds :
            events[e].exists =>
                /\ events'[e].exists
                /\ events'[e].deadline = events[e].deadline
                /\ events'[e].resolution_deadline = events[e].resolution_deadline]_vars

\* C22 witness: an event created with the shortest resolution window, on
\* which bets were placed and which is no longer Active, after its window.
C22_Witness ==
    \E e \in EventIds :
        /\ events[e].exists
        /\ events[e].resolution_deadline = events[e].deadline + 1
        /\ events[e].total_bettors > 0
        /\ events[e].status # "Active"
        /\ now > events[e].resolution_deadline

\* the value of a field after an update with the optional argument arg
Updated(old, arg) == IF arg.some THEN arg.val ELSE old

\* C23: update_platform by the authority changes exactly the fields that are
\* supplied: fee_basis_points, oracle and paused each take the argument when
\* it is present and keep their value when it is absent; authority, fee
\* totals and counters do not change; a call with fee_basis_points > 10000
\* fails with InvalidFeeBasisPoints and leaves oracle and paused as they are
\* whatever was supplied for them.
C23_UpdateWritesSuppliedFields ==
    platform_config.initialized =>
        \A f \in OptionOf(FeeChoices), o \in OptionOf(Keys), p \in OptionOf(BOOLEAN) :
            With(update_platform(platform_config.authority, f, o, p), LAMBDA r :
                IF f.some /\ f.val > 10000
                THEN r.err = "InvalidFeeBasisPoints" /\ NothingChanged(r)
                ELSE /\ r.err = "Ok"
                     /\ r.platform_config =
                            [platform_config EXCEPT
                                !.fee_basis_points = Updated(@, f),
                                !.oracle = Updated(@, o),
                                !.paused = Updated(@, p)]
                     /\ r.events = events
                     /\ r.user_bets = user_bets
                     /\ r.doom_vault = doom_vault
                     /\ r.life_vault = life_vault
                     /\ r.user_stats = user_stats)

\* C23 witness: a platform whose three settings were all updated, with
\* counters and fee totals that an update must keep.
C23_Witness ==
    /\ platform_config.initialized
    /\ platform_config.oracle # platform_config.authority
    /\ platform_config.paused
    /\ platform_config.total_bets > 0
    /\ platform_config.total_doom_fees + platform_config.total_life_fees > 0

(***************************************************************************)
(* Properties of the fee and of the payout arithmetic                      *)
(***************************************************************************)
\* the call of calculate_payout that claim_winnings makes for user u of event e
PayoutCallOf(e, u) ==
    [ev_outcome |-> events[e].outcome, doom_pool |-> events[e].doom_pool,
     life_pool |-> events[e].life_pool, bet_amount |-> user_bets[e][u].amount,
     bet_outcome |-> user_bets[e][u].outcome,
     fee_basis_points |-> platform_config.fee_basis_points]

\* C24: in every reachable state PlatformConfig.fee_basis_points is at most
\* 10000, initialize and update_platform refusing anything larger; so for
\* every winning bet the fee of calculate_payout is at most the share, and
\* share - fee does not underflow: calculate_payout returns a result.
C24_FeeAtMostShare ==
    /\ platform_config.fee_basis_points <= 10000
    /\ \A k \in Keys : initialize(k, 10001).err # "Ok"
    /\ \A k \in Keys, o \in OptionOf(NewOracles), p \in OptionOf(BOOLEAN) :
        update_platform(k, Some(10001), o, p).err # "Ok"
    /\ \A e \in EventIds :
        events[e].status = "Resolved" =>
            \A u \in Winners(e) :
                With(PayoutCallOf(e, u), LAMBDA c :
                    /\ BLeq(ReferenceFee(c), ReferenceShare(c))
                    /\ calculate_payout(c.ev_outcome, c.doom_pool, c.life_pool, c.bet_amount,
                                        c.bet_outcome, c.fee_basis_points).some)

\* C24 witness: a winning bet with a share of the losing pool, at the
\* largest fee rate.
C24_Witness ==
    /\ platform_config.fee_basis_points = 10000
    /\ \E e \in EventIds :
        /\ events[e].status = "Resolved"
        /\ events[e].doom_pool > 0
        /\ events[e].life_pool > 0
        /\ Winners(e) # {}

(***************************************************************************)
(* Exactness of the arithmetic of the liquidity pool                       *)
(***************************************************************************)
\* the errors of an arithmetic operation that cannot represent its result
ArithmeticErrors == {"Overflow", "Underflow", "TokenOverflow"}

FitsU64(x) == Len(x) <= U64_LIMBS

ExactDepositProbes == DepositProbes \cup {<<U64_MAX, U64_MAX>>, <<U64_MAX, 1>>}
ExactLpProbes == LpProbes \cup {U64_MAX}

\* a successful add_liquidity(a, b) stores exact results; root: also the
\* LP tokens of a first deposit are compared
DepositExact(a, b, root) ==
    With(add_liquidity(a, b, 0, TRUE), LAMBDA r :
    With(ReferenceLp(a, b), LAMBDA ref :
        /\ r.err = "Ok" =>
            /\ (root \/ pool.lp_supply > 0) =>
                /\ BN(r.lp_minted - lp_minted) = ref
                /\ BN(r.pool.lp_supply) = BAdd(BN(pool.lp_supply), ref)
            /\ r.pool.doom_reserve = pool.doom_reserve + a
            /\ r.pool.life_reserve = pool.life_reserve + b
            /\ r.pool_doom = pool_doom + a
            /\ r.pool_life = pool_life + b
        /\ (~FitsU64(ref) \/ pool.doom_reserve + a > U64_MAX
            \/ pool.life_reserve + b > U64_MAX) => r.err \in ArithmeticErrors))

\* a successful remove_liquidity(lp) stores exact results; errs: the errors
\* allowed when a share does not fit 64 bits
RemovalExact(lp, errs) ==
    With(remove_liquidity(lp, 0, 0, lp_minted), LAMBDA r :
    With(BDiv(BMul(BN(lp), BN(pool.doom_reserve)), BN(pool.lp_supply)), LAMBDA sd :
    With(BDiv(BMul(BN(lp), BN(pool.life_reserve)), BN(pool.lp_supply)), LAMBDA sl :
        /\ r.err = "Ok" =>
            /\ BN(pool_doom - r.pool_doom) = sd
            /\ BN(pool_life - r.pool_life) = sl
            /\ BN(pool.doom_reserve - r.pool.doom_reserve) = sd
            /\ BN(pool.life_reserve - r.pool.life_reserve) = sl
            /\ r.pool.lp_supply = pool.lp_supply - lp
        /\ (~FitsU64(sd) \/ ~FitsU64(sl)) => r.err \in errs)))

\* a successful swap of a in direction d stores exact results
SwapExact(a, d) ==
    With(swap(a, 0, d, TRUE), LAMBDA r :
    With(ReferenceAmountOut(a, d), LAMBDA out :
        /\ r.err = "Ok" =>
            /\ ReserveInOf(r.pool, d) = ReserveIn(d) + a
            /\ ReserveOutOf(r.pool, d) = ReserveOut(d) - out
            /\ r.pool_doom + r.pool_life = pool_doom + pool_life + a - out
        /\ (~Fits128(a, d) \/ ReserveIn(d) + a > U64_MAX) => r.err \in ArithmeticErrors))

\* C25 as stated: in every reachable pool each successful add_liquidity,
\* remove_liquidity and swap stores reserves, LP supply and transfer amounts
\* equal to the exact result of its formula on unbounded integers, and
\* whenever an exact intermediate or result does not fit its type, the
\* narrowing to 64 bits of the minted LP amount, of a payout and of amountOut
\* included, the operation fails with Overflow or Underflow.
C25_AmmArithmeticExact ==
    /\ pool.initialized =>
        \A dl \in ExactDepositProbes : (dl[1] > 0 /\ dl[2] > 0) => DepositExact(dl[1], dl[2], TRUE)
    /\ (pool.initialized /\ pool.lp_supply > 0) =>
        \A lp \in ExactLpProbes : lp > 0 => RemovalExact(lp, ArithmeticErrors)
    /\ PositiveReserves =>
        \A a \in SwapProbes, d \in BOOLEAN : a > 0 => SwapExact(a, d)

\* The part of C25 that holds: the same but for the LP tokens of a first
\* deposit, which come out of an f64, and for a payout that does not fit 64
\* bits, which is cut to its low bits and stopped by the burn of LP tokens
\* the user cannot hold.
AmmArithmeticExactButRootAndBurn ==
    /\ pool.initialized =>
        \A dl \in ExactDepositProbes : (dl[1] > 0 /\ dl[2] > 0) => DepositExact(dl[1], dl[2], FALSE)
    /\ (pool.initialized /\ pool.lp_supply > 0) =>
        \A lp \in ExactLpProbes :
            lp > 0 => RemovalExact(lp, ArithmeticErrors \cup {"InsufficientFunds"})
    /\ PositiveReserves =>
        \A a \in SwapProbes, d \in BOOLEAN : a > 0 => SwapExact(a, d)

\* what the result r of claim_winnings(u, e) moved to the winner, out of
\* both vaults, the fee left aside
PaidToWinner(r, e, u) ==
    (doom_vault[e] - r.doom_vault[e]) + (life_vault[e] - r.life_vault[e])
        - r.claim_log[e][u].fee

\* the winning bets of resolved events that are still to be claimed
Unclaimed(e) == {u \in Winners(e) : ~user_bets[e][u].claimed}

\* C26 as stated: for every winning bet on pools that place_bet has built,
\* calculate_payout returns exactly wager + share - fee or no result, the
\* narrowing of the total payout to 64 bits dropping no high bit, and
\* claim_winnings moves no less than wager + share - fee to the winner.
C26_PayoutNeverTruncated ==
    \A e \in EventIds :
        events[e].status = "Resolved" =>
            \A u \in Unclaimed(e) :
                With(PayoutCallOf(e, u), LAMBDA c :
                With(ReferencePayout(c), LAMBDA due :
                    /\ With(calculate_payout(c.ev_outcome, c.doom_pool, c.life_pool,
                                             c.bet_amount, c.bet_outcome, c.fee_basis_points),
                            LAMBDA p : p.some => BN(p.val[1]) = due)
                    /\ With(claim_winnings(u, e), LAMBDA r :
                            r.err = "Ok" => BLeq(due, BN(PaidToWinner(r, e, u))))))

\* The part of C26 that holds: the same for every winning bet whose
\* wager + share - fee fits 64 bits; the winner is then paid exactly that.
PayoutExactWithin64Bits ==
    \A e \in EventIds :
        events[e].status = "Resolved" =>
            \A u \in Unclaimed(e) :
                With(PayoutCallOf(e, u), LAMBDA c :
                With(ReferencePayout(c), LAMBDA due :
                    FitsU64(due) =>
                    /\ With(calculate_payout(c.ev_outcome, c.doom_pool, c.life_pool,
                                             c.bet_amount, c.bet_outcome, c.fee_basis_points),
                            LAMBDA p : p.some /\ BN(p.val[1]) = due)
                    /\ With(claim_winnings(u, e), LAMBDA r :
                            r.err = "Ok" => BN(PaidToWinner(r, e, u)) = due)))

(***************************************************************************)
(* Fee accrual of swap                                                     *)
(***************************************************************************)
FeeProbes == SwapProbes \cup {HugeAmount}

\* the pricing, slippage and reserve-update checks of a swap of a in
\* direction d all pass
SwapChecksPass(a, d) ==
    /\ a > 0
    /\ Fits128(a, d)
    /\ ReferenceAmountOut(a, d) < ReserveOut(d)
    /\ ReserveIn(d) + a <= U64_MAX
    /\ (IF d THEN pool_doom ELSE pool_life) + a <= U64_MAX

\* floor(a * 30 / 10000) added to the counter, capped at the 64-bit maximum
FeeAccrued(counter, a) ==
    Min(counter + BVal(BDiv(BMul(BN(a), BN(SWAP_FEE_BPS)), BN(10000))), U64_MAX)

\* a swap of a in direction d succeeds and accrues its fee on its side
SwapAccruesFee(a, d) ==
    With(swap(a, 0, d, TRUE), LAMBDA r :
        /\ r.err = "Ok"
        /\ r.pool.total_fees_doom =
            (IF d THEN FeeAccrued(pool.total_fees_doom, a) ELSE pool.total_fees_doom)
        /\ r.pool.total_fees_life =
            (IF d THEN pool.total_fees_life ELSE FeeAccrued(pool.total_fees_life, a)))

\* C27 as stated: a swap whose pricing, slippage and reserve-update checks
\* pass never fails because of the fee bookkeeping, whatever amountIn; the
\* fee counter of its side grows by floor(amountIn * 30 / 10000), capped at
\* the 64-bit maximum, and the counter of the other side does not change.
C27_FeeAccrualNeverFails ==
    PositiveReserves =>
        \A a \in FeeProbes, d \in BOOLEAN : SwapChecksPass(a, d) => SwapAccruesFee(a, d)

\* The part of C27 that holds: the same for every amountIn with
\* amountIn * 30 within 64 bits; a larger one fails with Overflow.
FeeAccrualWithin64Bits ==
    PositiveReserves =>
        \A a \in FeeProbes, d \in BOOLEAN :
            SwapChecksPass(a, d) =>
                IF FitsU64(BMul(BN(a), BN(SWAP_FEE_BPS))) THEN SwapAccruesFee(a, d)
                ELSE swap(a, 0, d, TRUE).err = "Overflow"

(***************************************************************************)
(* Position of the first ledger request (transfer, mint or burn) in each   *)
(* instruction: the instruction gets as far as issuing it                  *)
(***************************************************************************)
\* amm::add_liquidity up to its first token::transfer
add_liquidity_issues_transfer(doom_amount, life_amount, min_lp_tokens) ==
    /\ pool.initialized
    /\ doom_amount > 0 /\ life_amount > 0
    /\ With(IF pool.lp_supply = 0 THEN first_lp_tokens(doom_amount, life_amount)
            ELSE proportional_lp_tokens(pool, doom_amount, life_amount), LAMBDA lp :
        /\ lp.some
        /\ pool.lp_supply = 0 => lp.val > MINIMUM_LIQUIDITY
        /\ lp.val >= min_lp_tokens)

\* amm::remove_liquidity up to its token::burn
remove_liquidity_issues_transfer(lp_amount, min_doom, min_life) ==
    /\ pool.initialized
    /\ lp_amount > 0
    /\ pool.lp_supply > 0
    /\ With(liquidity_share(lp_amount, pool.doom_reserve, pool.lp_supply), LAMBDA doom_amount :
       With(liquidity_share(lp_amount, pool.life_reserve, pool.lp_supply), LAMBDA life_amount :
        /\ doom_amount.some /\ life_amount.some
        /\ doom_amount.val >= min_doom
        /\ life_amount.val >= min_life))

\* amm::swap up to its first token::transfer
swap_issues_transfer(amount_in, min_amount_out, doom_to_life) ==
    /\ pool.initialized
    /\ amount_in > 0
    /\ pool.doom_reserve > 0 /\ pool.life_reserve > 0
    /\ With(swap_amount_out(ReserveIn(doom_to_life), ReserveOut(doom_to_life), amount_in),
            LAMBDA amount_out :
        /\ amount_out.some
        /\ amount_out.val >= min_amount_out
        /\ amount_out.val < ReserveOut(doom_to_life))

\* place_bet up to its token::transfer
place_bet_issues_transfer(user, e, outcome, amount) ==
    /\ platform_config.initialized
    /\ ~platform_config.paused
    /\ events[e].exists
    /\ ~user_bets[e][user].exists
    /\ amount > 0
    /\ is_betting_open(events[e], now)

\* claim_winnings up to its first token::transfer
claim_winnings_issues_transfer(user, e) ==
    /\ platform_config.initialized
    /\ events[e].exists
    /\ events[e].status = "Resolved"
    /\ user_bets[e][user].exists
    /\ not_claimed(user_bets[e][user])
    /\ is_winner(user_bets[e][user], events[e].outcome)
    /\ calculate_payout(events[e].outcome, events[e].doom_pool, events[e].life_pool,
                        user_bets[e][user].amount, user_bets[e][user].outcome,
                        platform_config.fee_basis_points).some

\* claim_refund up to its token::transfer
claim_refund_issues_transfer(user, e) ==
    /\ events[e].exists
    /\ events[e].status = "Cancelled"
    /\ user_bets[e][user].exists
    /\ ~user_bets[e][user].refunded

\* what is left once a ledger request was issued: success, or the refusal
\* of the ledger itself
AfterTransfer == {"Ok", "InsufficientFunds", "TokenOverflow"}

\* add_liquidity and remove_liquidity fail with no error of their own once
\* they have issued a ledger request
LiquidityChecksBeforeTransfers ==
    /\ \A dl \in ExactDepositProbes, m \in MinLpChoices, funded \in BOOLEAN :
        add_liquidity_issues_transfer(dl[1], dl[2], m) =>
            add_liquidity(dl[1], dl[2], m, funded).err \in AfterTransfer
    /\ \A lp \in ExactLpProbes, m \in MinOutChoices, held \in {0, lp_minted} :
        remove_liquidity_issues_transfer(lp, m, m) =>
            remove_liquidity(lp, m, m, held).err \in AfterTransfer

\* swap likewise
SwapChecksBeforeTransfers ==
    \A a \in FeeProbes, m \in MinOutChoices, d \in BOOLEAN, funded \in BOOLEAN :
        swap_issues_transfer(a, m, d) => swap(a, m, d, funded).err \in AfterTransfer

\* place_bet, claim_winnings and claim_refund likewise
BetChecksBeforeTransfers ==
    \A e \in EventIds, u \in Keys :
        /\ \A o \in Outcomes, a \in BetAmounts \cup {U64_MAX}, funded \in BOOLEAN :
            place_bet_issues_transfer(u, e, o, a) =>
                place_bet(u, e, o, a, funded).err \in AfterTransfer
        /\ claim_winnings_issues_transfer(u, e) => claim_winnings(u, e).err \in AfterTransfer
        /\ claim_refund_issues_transfer(u, e) => claim_refund(u, e).err \in AfterTransfer

\* C28 as stated: no operation issues a transfer, a mint or a burn before
\* all of its own checks have passed: once add_liquidity, remove_liquidity,
\* swap, place_bet, claim_winnings or claim_refund has issued its first
\* ledger request, it does not fail with Overflow, Underflow or a validation
\* error.
C28_ChecksBeforeTransfers ==
    /\ LiquidityChecksBeforeTransfers
    /\ SwapChecksBeforeTransfers
    /\ BetChecksBeforeTransfers

\* The part of C28 that holds on the liquidity pool: add_liquidity and
\* remove_liquidity, whose later checked operations cannot fail in a
\* reachable pool, and every swap of an amount with amountIn * 30 within 64
\* bits.
ChecksBeforeTransfersButSwapFee ==
    /\ LiquidityChecksBeforeTransfers
    /\ \A a \in FeeProbes, m \in MinOutChoices, d \in BOOLEAN, funded \in BOOLEAN :
        (swap_issues_transfer(a, m, d) /\ FitsU64(BMul(BN(a), BN(SWAP_FEE_BPS)))) =>
            swap(a, m, d, funded).err \in AfterTransfer


(***************************************************************************)
(* Instructions on disjoint entities                                       *)
(***************************************************************************)
\* the events, bets and user-stats accounts an instruction writes or reads
OpEvents(op) == IF op.name = "update_platform" THEN {} ELSE {op.e}
OpBets(op) ==
    IF op.name \in {"place_bet", "claim_winnings", "claim_refund"}
    THEN {<<op.e, op.signer>>} ELSE {}
OpStats(op) ==
    IF op.name \in {"create_event", "place_bet", "claim_winnings"}
    THEN {op.signer} ELSE {}

DisjointEntities(a, b) ==
    /\ OpEvents(a) \cap OpEvents(b) = {}
    /\ OpBets(a) \cap OpBets(b) = {}
    /\ OpStats(a) \cap OpStats(b) = {}

\* both instructions succeed when executed alone on the accounts of the call
BothSucceed(r) == r.called /\ r.a_alone = "Ok" /\ r.b_alone = "Ok"

\* both orders succeed and leave the same accounts
SameFinalState(r) == r.a_then_b.err = "Ok" /\ r.a_then_b = r.b_then_a

\* C29: any two instructions that each succeed and touch disjoint events, bets
\* and user-stats accounts leave the same final state in either order, the
\* aggregate counters of PlatformConfig included.
C29_DisjointOperationsCommute ==
    (BothSucceed(commute_ret) /\ DisjointEntities(commute_ret.a, commute_ret.b))
        => SameFinalState(commute_ret)

\* C29 for instructions that write PlatformConfig through its aggregate
\* counters only, which is every instruction but update_platform (and
\* initialize, which succeeds only before any other does): in either order
\* they leave the same final state, also when a counter saturates.
DisjointEntityOperationsCommute ==
    (/\ BothSucceed(commute_ret)
     /\ DisjointEntities(commute_ret.a, commute_ret.b)
     /\ commute_ret.a.name # "update_platform")
        => SameFinalState(commute_ret)

\* Two bets by different users on different events, each of which alone takes
\* total_bets to the largest u64: after both, in either order, it is there.
C29_Witness ==
    /\ BothSucceed(commute_ret)
    /\ commute_ret.a.name = "place_bet" /\ commute_ret.b.name = "place_bet"
    /\ DisjointEntities(commute_ret.a, commute_ret.b)
    /\ commute_call.base = U64_MAX - 1
    /\ commute_ret.a_then_b.err = "Ok"
    /\ commute_ret.a_then_b.platform_config.total_bets = U64_MAX
    /\ commute_ret.a_then_b.user_bets[1][commute_ret.a.signer].placed_at = 1
    /\ commute_ret.a_then_b.user_bets[2][commute_ret.b.signer].placed_at = 2


(***************************************************************************)
(* Streaks                                                                 *)
(***************************************************************************)
\* how many of the most recent calls, up to the n-th, were calls of c
RECURSIVE Trailing(_, _, _)
Trailing(calls, n, c) ==
    IF n = 0 \/ calls[n].call # c THEN 0 ELSE 1 + Trailing(calls, n - 1, c)

\* the largest element of a set of naturals, 0 for the empty set
Largest(S) == IF S = {} THEN 0 ELSE CHOOSE x \in S : \A y \in S : y <= x

\* the values current_streak has had
StreaksSoFar == {0} \cup {streak_calls[i].streak : i \in DOMAIN streak_calls}

\* C30: after any sequence of record_win and record_loss calls current_streak
\* is the number of consecutive trailing wins, or minus the number of
\* consecutive trailing losses; a win after a loss streak makes it +1 and a
\* loss after a win streak -1; best_streak is the largest positive value it
\* has had and worst_streak the largest magnitude of a negative one.
C30_StreakAccounting ==
    /\ [](LET n == Len(streak_calls)
              wins == Trailing(streak_calls, n, "W")
              losses == Trailing(streak_calls, n, "L")
          IN  /\ streak_stats.current_streak = wins - losses
              /\ streak_stats.current_streak > 0 <=> (n > 0 /\ streak_calls[n].call = "W")
              /\ streak_stats.current_streak < 0 <=> (n > 0 /\ streak_calls[n].call = "L")
              /\ streak_stats.best_streak =
                    Largest({v \in StreaksSoFar : v > 0})
              /\ streak_stats.worst_streak =
                    Largest({-v : v \in {x \in StreaksSoFar : x < 0}}))
    /\ [][/\ (RecordWin /\ streak_stats.current_streak < 0)
                => streak_stats'.current_streak = 1
          /\ (RecordLoss /\ streak_stats.current_streak > 0)
                => streak_stats'.current_streak = -1]_vars

\* Two losses, three wins and a loss: the streak is -1, the best 3, the worst 2.
C30_Witness ==
    /\ Len(streak_calls) = 6
    /\ [i \in 1..6 |-> streak_calls[i].call] = <<"L", "L", "W", "W", "W", "L">>
    /\ streak_stats.current_streak = -1
    /\ streak_stats.best_streak = 3
    /\ streak_stats.worst_streak = 2


(***************************************************************************)
(* Scenario A                                                              *)
(***************************************************************************)
\* the pool holds scenario A's reserves
ScenarioAPool == pool.doom_reserve = 1000000 /\ pool.life_reserve = 1000000

\* swap(10_000, 0, DOOM to LIFE) on scenario A's pool takes 10_000 DOOM and
\* pays out LIFE
ScenarioAPays(out) ==
    ScenarioAPool =>
        With(swap(10000, 0, TRUE, TRUE), LAMBDA r :
            /\ r.err = "Ok"
            /\ r.pool.doom_reserve = 1000000 + 10000
            /\ r.pool.life_reserve = 1000000 - out
            /\ r.pool_life = pool_life - out)

\* C31: on reserves (1_000_000, 1_000_000) a swap of 10_000 from A to B pays
\* out 99,304.
C31_ScenarioA == ScenarioAPays(99304)

\* C31 with the value of the formula: the swap pays out
\* floor(10000 * 9970 * 1000000 / (1000000 * 10000 + 10000 * 9970)) = 9,871.
ScenarioAPaysFormula ==
    /\ ScenarioAPays(9871)
    /\ BVal(BDiv(BMul(BMul(BN(10000), BN(9970)), BN(1000000)),
                 BAdd(BMul(BN(1000000), BN(10000)), BMul(BN(10000), BN(9970))))) = 9871

\* the pool after that swap
C31_Witness ==
    /\ pool.doom_reserve = 1010000 /\ pool.life_reserve = 1000000 - 9871
    /\ pool.lp_supply = 1000000
    /\ pool.total_fees_doom = 30


(***************************************************************************)
(* The minimum liquidity                                                   *)
(***************************************************************************)
\* C32: once the first add_liquidity has succeeded (the first instruction an
\* initialized pool can execute), lp_supply never returns to zero or below
\* MINIMUM_LIQUIDITY.
C32_MinimumLiquidityLocked ==
    amm_steps > 0 => pool.lp_supply >= MINIMUM_LIQUIDITY

\* What the code does keep: the first deposit mints more than
\* MINIMUM_LIQUIDITY, all of it to the depositor.
FirstDepositAboveMinimum ==
    /\ (pool.initialized /\ pool.lp_supply = 0) =>
        \A dl \in ExactDepositProbes, funded \in BOOLEAN :
            With(add_liquidity(dl[1], dl[2], 0, funded), LAMBDA r :
                r.err = "Ok" =>
                    /\ r.pool.lp_supply > MINIMUM_LIQUIDITY
                    /\ r.lp_minted = r.pool.lp_supply)
    /\ lp_minted = pool.lp_supply


(***************************************************************************)
(* Vault solvency                                                          *)
(***************************************************************************)
\* the winners of e that have not claimed, the bets of e on a side that were
\* not refunded
UnclaimedWinners(e) == {u \in Winners(e) : ~user_bets[e][u].claimed}
Unrefunded(e, side) ==
    {u \in Keys : /\ user_bets[e][u].exists
                  /\ user_bets[e][u].outcome = side
                  /\ ~user_bets[e][u].refunded}

\* what claim_winnings takes out of the vault of the losing side for user u
\* at fee rate f: the winnings and the fee
FromLosingVault(e, u, f) ==
    With(calculate_payout(events[e].outcome, events[e].doom_pool, events[e].life_pool,
                          user_bets[e][u].amount, user_bets[e][u].outcome, f), LAMBDA p :
    IF p.some
    THEN BAdd(BN(saturating_sub_u64(p.val[1], user_bets[e][u].amount)), BN(p.val[2]))
    ELSE <<>>)

StakeOf(e, S) == BSum(S, [u \in S |-> BN(user_bets[e][u].amount)])

WinningVault(e) == IF events[e].outcome = "Doom" THEN doom_vault[e] ELSE life_vault[e]
LosingVault(e) == IF events[e].outcome = "Doom" THEN life_vault[e] ELSE doom_vault[e]

\* the accounts with the fee rate set to f, as update_platform leaves them
AtFeeRate(f) == [World EXCEPT !.platform_config.fee_basis_points = f]

\* the vaults of every event cover what is still to be paid out of them
VaultsSolvent ==
    \A e \in EventIds :
        /\ doom_vault[e] \in 0..events[e].doom_pool
        /\ life_vault[e] \in 0..events[e].life_pool
        /\ events[e].status = "Resolved" =>
            /\ BLeq(StakeOf(e, UnclaimedWinners(e)), BN(WinningVault(e)))
            /\ \A f \in FeeRates :
                /\ BLeq(BSum(UnclaimedWinners(e),
                             [u \in UnclaimedWinners(e) |-> FromLosingVault(e, u, f)]),
                        BN(LosingVault(e)))
                /\ \A u \in UnclaimedWinners(e) :
                    claim_winnings_in(AtFeeRate(f), now, u, e).err = "Ok"
        /\ events[e].status = "Cancelled" =>
            /\ BLeq(StakeOf(e, Unrefunded(e, "Doom")), BN(doom_vault[e]))
            /\ BLeq(StakeOf(e, Unrefunded(e, "Life")), BN(life_vault[e]))
            /\ \A u \in Unrefunded(e, "Doom") \cup Unrefunded(e, "Life") :
                claim_refund(u, e).err = "Ok"

\* C33: what has left a vault never exceeds what place_bet put into it; the
\* vaults of a resolved event cover the stakes, winnings and fees of the
\* winners still to claim at every fee rate, and each of them can claim; the
\* vaults of a cancelled event cover the bets still to refund, and each of
\* them can be refunded.
C33_VaultsSolvent == []VaultsSolvent

\* A resolved event with a loser, where one winner has claimed with a fee
\* taken, the fee rate has changed since and another winner is still to claim.
C33_Witness ==
    \E e \in EventIds :
        /\ events[e].status = "Resolved"
        /\ UnclaimedWinners(e) # {}
        /\ LosingPool(e) > 0
        /\ \E u \in Winners(e) :
            /\ claim_log[e][u].claimed
            /\ claim_log[e][u].fee > 0
            /\ claim_log[e][u].fee_basis_points # platform_config.fee_basis_points


(***************************************************************************)
(* Vault solvency of the program of lib.rs                                 *)
(***************************************************************************)
\* every bet of e lies in the vault of its side and nothing has left them
BetsInTheirVaults(e) ==
    /\ doom_vault[e] = events[e].doom_pool
    /\ life_vault[e] = events[e].life_pool
    /\ \A u \in Keys : ~user_bets[e][u].claimed

\* C34: in a resolved event whose bets lie in the vaults of their sides,
\* every winner can claim through claim_winnings of lib.rs.
C34_LibVaultSolvent ==
    \A e \in EventIds :
        (events[e].status = "Resolved" /\ BetsInTheirVaults(e)) =>
            \A u \in Winners(e) : prediction_market_claim_winnings(u, e).err = "Ok"

\* What holds of that claim_winnings: it pays a winner exactly when the
\* vault of the winning side alone holds its payout, which is the case when
\* nothing was bet on the other side or the fee takes the whole share.
LibClaimPaidByWinningVault ==
    \A e \in EventIds :
        (events[e].status = "Resolved" /\ BetsInTheirVaults(e) /\ ~platform_config.paused) =>
            \A u \in Winners(e) :
                With(prediction_market_claim_winnings(u, e), LAMBDA r :
                    /\ r.err \in {"Ok", "InsufficientFunds", "Overflow"}
                    /\ (LosingPool(e) = 0 /\ platform_config.fee_basis_points = 0) =>
                        /\ r.err = "Ok"
                        /\ WinningVault(e) - (IF events[e].outcome = "Doom"
                                              THEN r.doom_vault[e] ELSE r.life_vault[e])
                            = user_bets[e][u].amount
                    /\ (LosingPool(e) > 0 /\ platform_config.fee_basis_points = 0
                        /\ Cardinality(Winners(e)) = 1) => r.err # "Ok")


(***************************************************************************)
(* Pool totals                                                             *)
(***************************************************************************)
BetsOn(e, side) ==
    {u \in Keys : user_bets[e][u].exists /\ user_bets[e][u].outcome = side}

\* the three totals of an event
Totals(ev) == <<ev.doom_pool, ev.life_pool, ev.total_bettors>>

\* C35: doom_pool and life_pool are the sums of the bets placed on each side
\* and total_bettors is the number of bets; only a new bet changes them, so
\* they no longer change once the deadline has passed or the event is
\* resolved or cancelled.
C35_PoolTotalsExact ==
    /\ [](\A e \in EventIds :
            /\ BN(events[e].doom_pool) = StakeOf(e, BetsOn(e, "Doom"))
            /\ BN(events[e].life_pool) = StakeOf(e, BetsOn(e, "Life"))
            /\ events[e].total_bettors =
                  Cardinality(BetsOn(e, "Doom") \cup BetsOn(e, "Life")))
    /\ [][\A e \in EventIds :
            /\ Totals(events'[e]) # Totals(events[e]) =>
                  \E u \in Keys : ~user_bets[e][u].exists /\ user_bets'[e][u].exists
            /\ (events[e].exists /\ (Terminal(events[e]) \/ now >= events[e].deadline)) =>
                  Totals(events'[e]) = Totals(events[e])]_vars

\* A resolved event with bets on both sides, one of them paid out, whose
\* totals still are those of the bets.
C35_Witness ==
    \E e \in EventIds :
        /\ events[e].status = "Resolved"
        /\ BetsOn(e, "Doom") # {} /\ BetsOn(e, "Life") # {}
        /\ \E u \in Keys : user_bets[e][u].claimed
        /\ events[e].total_bettors = 3
        /\ doom_vault[e] < events[e].doom_pool \/ life_vault[e] < events[e].life_pool


(***************************************************************************)
(* Custody of the AMM                                                      *)
(***************************************************************************)
\* C36: after every successful initialize_pool, add_liquidity,
\* remove_liquidity and swap the pool's token-A balance is doom_reserve, its
\* token-B balance is life_reserve and the LP tokens outstanding are
\* lp_supply.
C36_CustodyMatchesBooks ==
    pool.initialized =>
        /\ pool_doom = pool.doom_reserve
        /\ pool_life = pool.life_reserve
        /\ lp_minted = pool.lp_supply

\* A pool that took a deposit, then a swap and a withdrawal: the reserves
\* are no longer those deposited and part of the LP tokens is burnt.
C36_Witness ==
    /\ pool.initialized /\ amm_steps = 3
    /\ pool.total_fees_doom > 0
    /\ pool.lp_supply = 10000
    /\ pool_doom = pool.doom_reserve /\ pool_doom > pool_life
    /\ pool_life = pool.life_reserve /\ pool_life > 0


(***************************************************************************)
(* LP supply and the geometric mean of the reserves                        *)
(***************************************************************************)
SupplyBelowGeometricMean(p) ==
    BLeq(BMul(BN(p.lp_supply), BN(p.lp_supply)),
         BMul(BN(p.doom_reserve), BN(p.life_reserve)))

\* C37 as stated: in every pool state reachable from initialize_pool,
\* lp_supply squared is at most doom_reserve * life_reserve.
C37_SupplyBelowGeometricMean ==
    pool.initialized => SupplyBelowGeometricMean(pool)

\* The part of C37 that holds: every operation on a pool with LP tokens
\* outstanding keeps the bound if the pool has it; only the first deposit
\* can break it.
GeometricMeanBoundPreserved ==
    [][(pool.initialized /\ pool.lp_supply > 0 /\ SupplyBelowGeometricMean(pool))
        => SupplyBelowGeometricMean(pool')]_vars


(***************************************************************************)
(* NoWinnings                                                              *)
(***************************************************************************)
\* no claim ends in NoWinnings and every winning bet has a payout
NeverNoWinnings ==
    \A e \in EventIds : \A u \in Keys :
        /\ claim_winnings(u, e).err # "NoWinnings"
        /\ platform_config.fee_basis_points <= 10000
        /\ (events[e].status = "Resolved" /\ user_bets[e][u].exists
            /\ user_bets[e][u].outcome = events[e].outcome) =>
            /\ user_bets[e][u].amount > 0
            /\ user_bets[e][u].amount <=
                 (IF events[e].outcome = "Doom" THEN events[e].doom_pool
                  ELSE events[e].life_pool)
            /\ \A f \in FeeRates :
                 calculate_payout(events[e].outcome, events[e].doom_pool,
                                  events[e].life_pool, user_bets[e][u].amount,
                                  user_bets[e][u].outcome, f).some

\* C38: claim_winnings never fails with NoWinnings; the fee rate is at
\* most 10000, a bet on the resolved outcome is positive and no more than
\* the winning pool, and calculate_payout returns a payout for it at every
\* such fee rate.
C38_NeverNoWinnings == []NeverNoWinnings

\* An unclaimed bet of the largest amount on the winning side of a resolved
\* event with a losing pool, whose claim at the platform's fee rate succeeds.
C38_Witness ==
    \E e \in EventIds : \E u \in Keys :
        /\ events[e].status = "Resolved"
        /\ user_bets[e][u].exists /\ ~user_bets[e][u].claimed
        /\ user_bets[e][u].outcome = events[e].outcome
        /\ user_bets[e][u].amount = HugeAmount
        /\ platform_config.fee_basis_points > 0
        /\ (IF events[e].outcome = "Doom" THEN events[e].life_pool
            ELSE events[e].doom_pool) > 0
        /\ claim_winnings(u, e).err = "Ok"


(***************************************************************************)
(* Losses                                                                  *)
(***************************************************************************)
\* the user's bets on resolved events that won and were claimed
ClaimedWins(u) ==
    {e \in EventIds : /\ events[e].status = "Resolved"
                      /\ user_bets[e][u].exists /\ user_bets[e][u].claimed}

\* the user's bets on resolved events that lost: nothing is left to claim
LostBets(u) ==
    {e \in EventIds : /\ events[e].status = "Resolved"
                      /\ user_bets[e][u].exists
                      /\ user_bets[e][u].outcome # events[e].outcome}

\* C39 as stated: for every user wins + losses is the number of the user's
\* settled bets on resolved events, the losing ones counted in losses.
C39_LossesRecorded ==
    \A u \in Keys :
        /\ user_stats[u].wins = Cardinality(ClaimedWins(u))
        /\ user_stats[u].losses = Cardinality(LostBets(u))
        /\ user_stats[u].wins + user_stats[u].losses =
              Cardinality(ClaimedWins(u) \cup LostBets(u))

\* What the instructions do: wins counts the claimed bets and nothing that
\* record_loss writes ever leaves its initial value.
LossesNeverRecorded ==
    \A u \in Keys :
        /\ user_stats[u].wins = Cardinality(ClaimedWins(u))
        /\ user_stats[u].losses = 0
        /\ user_stats[u].total_lost = 0
        /\ user_stats[u].current_streak >= 0
        /\ user_stats[u].worst_streak = 0


(***************************************************************************)
(* Deposits that mint nothing                                              *)
(***************************************************************************)
\* C40 as stated: every successful add_liquidity with minLP = 0 increases
\* lp_supply.
C40_DepositMintsLp ==
    pool.initialized =>
        \A dl \in DepositProbes :
            With(add_liquidity(dl[1], dl[2], 0, TRUE), LAMBDA r :
                r.err = "Ok" => r.pool.lp_supply > pool.lp_supply)

\* What holds: a first deposit mints more than MINIMUM_LIQUIDITY, and a
\* later one mints nothing exactly when one of its amounts is less than one
\* LP token's worth of its reserve; it still takes both amounts.
DepositMintsNothingForDust ==
    pool.initialized =>
        \A dl \in DepositProbes :
            With(add_liquidity(dl[1], dl[2], 0, TRUE), LAMBDA r :
                r.err = "Ok" =>
                    /\ r.pool.doom_reserve = pool.doom_reserve + dl[1]
                    /\ r.pool.life_reserve = pool.life_reserve + dl[2]
                    /\ pool.lp_supply = 0 =>
                          r.pool.lp_supply > MINIMUM_LIQUIDITY
                    /\ pool.lp_supply > 0 =>
                          (r.pool.lp_supply = pool.lp_supply <=>
                              \/ BLt(BMul(BN(dl[1]), BN(pool.lp_supply)),
                                     BN(pool.doom_reserve))
                              \/ BLt(BMul(BN(dl[2]), BN(pool.lp_supply)),
                                     BN(pool.life_reserve))))

=============================================================================
